---- MODULE Spec2Model ----
(***************************************************************************)
(* Season Editor: the undo/redo transaction log over filesystem mutations, *)
(* the directory snapshot/restore engine, the name-conflict resolver and   *)
(* the drag-and-drop move controller of the extension (extension.ts), with *)
(* the path utilities of lib/wiz-utils.ts.                                 *)
(*                                                                         *)
(* Paths and names are character strings, handled with Len, SubSeq and \o  *)
(* as the code handles them.  A filesystem is a function from the paths of *)
(* the existing entries to [type, contents].                               *)
(***************************************************************************)
EXTENDS Integers, Sequences, FiniteSets, TLC

VARIABLES
  fs,         \* the workspace on disk: path -> [type, contents]
  undoStack,  \* const undoStack: FsOp[]
  redoStack,  \* const redoStack: FsOp[]
  tasks,      \* the command handlers in flight: slot -> handler state
  hist,       \* history variables (what happened so far), read by the properties only
  session     \* the document session of one Wiz folder: editing surface, panel and messages

vars == <<fs, undoStack, redoStack, tasks, hist, session>>

----------------------------------------------------------------------------
(* Bounds of the model *)

\* changes of the workspace in one behaviour, when handlers run one at a time:
\* recording commands (new file, new folder, new wiz page, rename, delete,
\* drop) and the changes other programs make
MaxOps == 2
\* the same, when handlers interleave at their await points
MaxOpsConc == 2
\* undo and redo commands invoked in one behaviour, when handlers interleave
MaxUndoConc == 2
\* handlers in flight at once in the interleaved specification
MaxInFlight == 2
\* changes made to the workspace by other programs
MaxExternal == 1
\* steps a handler may take inside one atomic command before it counts as hung
MaxSteps == 60
\* names taken one after the other in the directory of the resolver runs
MaxTaken == 2
\* edits typed, saves asked for and tabs clicked by the user of a document session
MaxEdits == 2
MaxSaves == 2
MaxOpens == 1
\* length of the free part of a text handed to the functions of lib/wiz-utils.ts
MaxTextLen == 3
\* pieces put after the beginning of a line of a dropped payload
MaxLineTokens == 2
\* segments of the base path handed to buildTemplate
MaxPathSegs == 3
\* drags begun over the window of a document session, from the tree or from elsewhere
MaxDrags == 2
\* requestTemplate messages that reach the panel in one behaviour
MaxAsks == 1
\* changes other programs make to the files of the folder of a document session
MaxDiskChanges == 1

\* no custom editor is open
NoSession == [folder |-> ""]

----------------------------------------------------------------------------
(* Strings *)

RECURSIVE LastIndexOf(_, _, _)
\* the last position <= i of character c in s; 0 when there is none
LastIndexOf(s, c, i) ==
  IF i = 0 THEN 0
  ELSE IF SubSeq(s, i, i) = c THEN i
  ELSE LastIndexOf(s, c, i - 1)

StartsWith(s, prefix) ==
  /\ Len(s) >= Len(prefix)
  /\ SubSeq(s, 1, Len(prefix)) = prefix

LowerChar(c) ==
  CASE c = "A" -> "a" [] c = "B" -> "b" [] c = "C" -> "c" [] c = "D" -> "d"
    [] c = "E" -> "e" [] c = "F" -> "f" [] c = "G" -> "g" [] c = "H" -> "h"
    [] c = "I" -> "i" [] c = "J" -> "j" [] c = "K" -> "k" [] c = "L" -> "l"
    [] c = "M" -> "m" [] c = "N" -> "n" [] c = "O" -> "o" [] c = "P" -> "p"
    [] c = "Q" -> "q" [] c = "R" -> "r" [] c = "S" -> "s" [] c = "T" -> "t"
    [] c = "U" -> "u" [] c = "V" -> "v" [] c = "W" -> "w" [] c = "X" -> "x"
    [] c = "Y" -> "y" [] c = "Z" -> "z" [] OTHER -> c

RECURSIVE ToLowerCase(_)
ToLowerCase(s) ==
  IF Len(s) = 0 THEN ""
  ELSE LowerChar(SubSeq(s, 1, 1)) \o ToLowerCase(SubSeq(s, 2, Len(s)))

----------------------------------------------------------------------------
(* Paths: node's path module on POSIX, vscode.Uri.joinPath *)

Basename(p) == SubSeq(p, LastIndexOf(p, "/", Len(p)) + 1, Len(p))

Dirname(p) ==
  LET i == LastIndexOf(p, "/", Len(p))
  IN  IF i <= 1 THEN "/" ELSE SubSeq(p, 1, i - 1)

JoinPath(dir, name) == IF dir = "/" THEN "/" \o name ELSE dir \o "/" \o name

\* path.extname of a name without separators: from the last dot on, "" when
\* there is no dot, when the only dot leads the name, and for ".."
Extname(name) ==
  LET i == LastIndexOf(name, ".", Len(name))
  IN  IF i = 0 \/ i = 1 \/ name = ".." THEN "" ELSE SubSeq(name, i, Len(name))

\* a faulty splitName that never splits the extension off
splitNameWhole(name) == [base |-> name, ext |-> ""]

\* splitName(name): { base, ext }
splitName(name) ==
  LET ext == Extname(name)
  IN  [base |-> IF ext # "" THEN SubSeq(name, 1, Len(name) - Len(ext)) ELSE name,
       ext |-> ext]

\* p lies strictly below directory d
IsUnder(p, d) == StartsWith(p, JoinPath(d, ""))

RECURSIVE Ancestors(_)
\* the proper ancestors of p, without the filesystem root "/"
Ancestors(p) ==
  LET d == Dirname(p)
  IN  IF d = "/" THEN {} ELSE {d} \cup Ancestors(d)

----------------------------------------------------------------------------
(* The filesystem behind vscode.workspace.fs and WorkspaceEdit *)

\* vscode.workspace.workspaceFolders; Root is wsFolders[0]
WorkspaceFolders == <<"/w", "/v">>
Root == WorkspaceFolders[1]
Roots == {WorkspaceFolders[k] : k \in DOMAIN WorkspaceFolders}

\* vscode.workspace.getWorkspaceFolder(uri) ?? wsFolders[0]
getWorkspaceFolder(u) ==
  IF \E r \in Roots : u = r \/ IsUnder(u, r)
  THEN CHOOSE r \in Roots : u = r \/ IsUnder(u, r)
  ELSE Root

DirEntry == [type |-> "dir", contents |-> ""]
FileEntry(c) == [type |-> "file", contents |-> c]

Exists(f, p) == p = "/" \/ p \in DOMAIN f
IsDir(f, p) == p = "/" \/ (p \in DOMAIN f /\ f[p].type = "dir")
IsFile(f, p) == p \in DOMAIN f /\ f[p].type = "file"

Children(f, d) == {p \in DOMAIN f : Dirname(p) = d /\ p # d}
Subtree(f, p) == {q \in DOMAIN f : q = p \/ IsUnder(q, p)}

Put(f, p, e) == [q \in DOMAIN f \cup {p} |-> IF q = p THEN e ELSE f[q]]
Remove(f, S) == [q \in DOMAIN f \ S |-> f[q]]

\* the file service creates missing parent folders before a write, a create or
\* a move; that fails when one of them is a file
CanMkdirp(f, d) == \A a \in Ancestors(d) \cup {d} : a = "/" \/ ~IsFile(f, a)
Mkdirp(f, d) ==
  LET add == {a \in (Ancestors(d) \cup {d}) \ {"/"} : a \notin DOMAIN f}
  IN  [q \in DOMAIN f \cup add |-> IF q \in add THEN DirEntry ELSE f[q]]

Ok(f) == [ok |-> TRUE, fs |-> f]
Fail(f) == [ok |-> FALSE, fs |-> f]

\* vscode.workspace.fs.createDirectory(uri)
FsCreateDirectory(f, p) ==
  IF CanMkdirp(f, p) THEN Ok(Mkdirp(f, p)) ELSE Fail(f)

\* vscode.workspace.fs.writeFile(uri, contents)
FsWriteFile(f, p, c) ==
  IF IsDir(f, p) \/ ~CanMkdirp(f, Dirname(p)) THEN Fail(f)
  ELSE Ok(Put(Mkdirp(f, Dirname(p)), p, FileEntry(c)))

\* vscode.workspace.fs.delete(uri, {recursive})
FsDelete(f, p, recursive) ==
  IF ~Exists(f, p) \/ p = "/" THEN Fail(f)
  ELSE IF ~recursive /\ Children(f, p) # {} THEN Fail(f)
  ELSE Ok(Remove(f, Subtree(f, p)))

\* vscode.workspace.fs.rename(from, to, {overwrite: false})
FsRename(f, from, to) ==
  IF \/ ~Exists(f, from) \/ from = "/"
     \/ Exists(f, to)
     \/ IsUnder(to, from)
     \/ ~CanMkdirp(f, Dirname(to))
  THEN Fail(f)
  ELSE LET moved == Subtree(f, from)
           target(q) == to \o SubSeq(q, Len(from) + 1, Len(q))
           g == Mkdirp(Remove(f, moved), Dirname(to))
       IN  Ok([q \in DOMAIN g \cup {target(m) : m \in moved} |->
                 IF q \in DOMAIN g THEN g[q]
                 ELSE f[CHOOSE m \in moved : target(m) = q]])

\* applyEdit of createFile(uri, {overwrite: false, ignoreIfExists: false, contents})
EditCreateFile(f, p, c) ==
  IF Exists(f, p) THEN Fail(f) ELSE FsWriteFile(f, p, c)

\* applyEdit of deleteFile(uri, {recursive: false, ignoreIfNotExists: true})
EditDeleteFile(f, p) ==
  IF ~Exists(f, p) THEN Ok(f) ELSE FsDelete(f, p, FALSE)

\* applyEdit of renameFile(old, new, {overwrite: false})
EditRenameFile(f, from, to) == FsRename(f, from, to)

----------------------------------------------------------------------------
(* File-service calls as values: an undo or a redo is a list of them *)

CallDelete(p, recursive, i) ==
  [fn |-> "delete", uri |-> p, to |-> "", contents |-> "", recursive |-> recursive, inner |-> i]
CallRename(from, to, i) ==
  [fn |-> "rename", uri |-> from, to |-> to, contents |-> "", recursive |-> FALSE, inner |-> i]
CallWriteFile(p, c, i) ==
  [fn |-> "writeFile", uri |-> p, to |-> "", contents |-> c, recursive |-> FALSE, inner |-> i]
CallCreateDirectory(p, i) ==
  [fn |-> "createDirectory", uri |-> p, to |-> "", contents |-> "", recursive |-> FALSE, inner |-> i]
CallEditCreate(p, c) ==
  [fn |-> "editCreateFile", uri |-> p, to |-> "", contents |-> c, recursive |-> FALSE, inner |-> 0]
CallEditDelete(p) ==
  [fn |-> "editDeleteFile", uri |-> p, to |-> "", contents |-> "", recursive |-> FALSE, inner |-> 0]
CallEditRename(from, to) ==
  [fn |-> "editRenameFile", uri |-> from, to |-> to, contents |-> "", recursive |-> FALSE, inner |-> 0]

FsCall(f, c) ==
  CASE c.fn = "delete" -> FsDelete(f, c.uri, c.recursive)
    [] c.fn = "rename" -> FsRename(f, c.uri, c.to)
    [] c.fn = "writeFile" -> FsWriteFile(f, c.uri, c.contents)
    [] c.fn = "createDirectory" -> FsCreateDirectory(f, c.uri)
    [] c.fn = "editCreateFile" -> EditCreateFile(f, c.uri, c.contents)
    [] c.fn = "editDeleteFile" -> EditDeleteFile(f, c.uri)
    [] c.fn = "editRenameFile" -> EditRenameFile(f, c.uri, c.to)

----------------------------------------------------------------------------
(* Directory listing, Wiz folders, snapshot and restore *)

RECURSIVE SetToSeq(_)
\* the order in which readDirectory lists the entries: fixed by the platform
SetToSeq(S) ==
  IF S = {} THEN <<>>
  ELSE LET x == CHOOSE y \in S : TRUE IN <<x>> \o SetToSeq(S \ {x})

\* vscode.workspace.fs.readDirectory(dir), as full paths
ReadDirectory(f, d) == SetToSeq(Children(f, d))

isWizFolder(f, d) ==
  /\ IsDir(f, d)
  /\ \E n \in {"view.pug", "view.ts", "api.py", "socket.py"} : Exists(f, JoinPath(d, n))

\* a faulty relPath that keeps the last name only
relPathFlat(root, p) == Basename(p)

\* relPath(root, u)
relPath(root, p) ==
  IF StartsWith(p, root)
  THEN LET rest == SubSeq(p, Len(root) + 1, Len(p))
       IN  IF StartsWith(rest, "/") THEN SubSeq(rest, 2, Len(rest)) ELSE rest
  ELSE Basename(p)

RECURSIVE walk(_, _, _)
\* the directories and files below the listed entries, in the order visited
walk(f, root, entries) ==
  IF entries = <<>> THEN [dirs |-> <<>>, files |-> <<>>]
  ELSE LET u == Head(entries)
           rest == walk(f, root, Tail(entries))
       IN  IF f[u].type = "dir"
           THEN LET sub == walk(f, root, ReadDirectory(f, u))
                IN  [dirs |-> <<relPath(root, u)>> \o sub.dirs \o rest.dirs,
                     files |-> sub.files \o rest.files]
           ELSE [dirs |-> rest.dirs,
                 files |-> <<[rel |-> relPath(root, u), contents |-> f[u].contents]>>
                            \o rest.files]

RECURSIVE InsertByLength(_, _)
InsertByLength(x, sorted) ==
  IF sorted = <<>> THEN <<x>>
  ELSE IF Len(x) < Len(Head(sorted)) THEN <<x>> \o sorted
  ELSE <<Head(sorted)>> \o InsertByLength(x, Tail(sorted))

RECURSIVE SortLongestFirst(_)
\* a faulty sort that puts the longest path first
SortLongestFirst(s) ==
  IF s = <<>> THEN <<>>
  ELSE LET rest == SortLongestFirst(SubSeq(s, 1, Len(s) - 1))
           longer == {k \in DOMAIN rest : Len(rest[k]) >= Len(s[Len(s)])}
       IN  SubSeq(rest, 1, Cardinality(longer)) \o <<s[Len(s)]>>
             \o SubSeq(rest, Cardinality(longer) + 1, Len(rest))

RECURSIVE SortByLength(_)
\* out.dirs.sort((a, b) => a.length - b.length): stable, shortest first
SortByLength(s) ==
  IF s = <<>> THEN <<>>
  ELSE InsertByLength(s[Len(s)], SortByLength(SubSeq(s, 1, Len(s) - 1)))

\* snapshotDir(root): fails when root cannot be listed
snapshotDir(f, root) ==
  IF ~IsDir(f, root) THEN [ok |-> FALSE, snap |-> [dirs |-> <<>>, files |-> <<>>]]
  ELSE LET w == walk(f, root, ReadDirectory(f, root))
       IN  [ok |-> TRUE,
            snap |-> [dirs |-> SortByLength(<<"">> \o w.dirs), files |-> w.files]]

\* a faulty restoreDir that recreates the directories and forgets the files
restoreDirNoFiles(root, snap, i) ==
  [k \in 1..Len(snap.dirs) |->
     CallCreateDirectory(IF snap.dirs[k] # "" THEN JoinPath(root, snap.dirs[k]) ELSE root, i)]

\* restoreDir(root, snap): the directories in listed order, then the files
restoreDir(root, snap, i) ==
  [k \in 1..Len(snap.dirs) |->
     CallCreateDirectory(IF snap.dirs[k] # "" THEN JoinPath(root, snap.dirs[k]) ELSE root, i)]
  \o [k \in 1..Len(snap.files) |->
        CallWriteFile(JoinPath(root, snap.files[k].rel), snap.files[k].contents, i)]

----------------------------------------------------------------------------
(* Name conflicts *)

PickLimit == 10000

RECURSIVE Probe(_, _, _, _, _)
\* for (let i = 1; i < 10_000; i++): the first "<base> (<i>)<ext>" that does not exist
Probe(f, destDir, base, ext, i) ==
  IF i >= PickLimit THEN [ok |-> FALSE, uri |-> ""]
  ELSE LET candidate == JoinPath(destDir, base \o " (" \o ToString(i) \o ")" \o ext)
       IN  IF ~Exists(f, candidate) THEN [ok |-> TRUE, uri |-> candidate]
           ELSE Probe(f, destDir, base, ext, i + 1)

\* a faulty resolver that returns the desired name whether it is taken or not
pickNonConflictingUriNaive(f, destDir, baseName) ==
  [ok |-> TRUE, uri |-> JoinPath(destDir, baseName)]

\* pickNonConflictingUri(destDir, baseName): throws after 9999 taken names
pickNonConflictingUri(f, destDir, baseName) ==
  LET sp == splitName(baseName)
      candidate == JoinPath(destDir, baseName)
  IN  IF ~Exists(f, candidate) THEN [ok |-> TRUE, uri |-> candidate]
      ELSE Probe(f, destDir, sp.base, sp.ext, 1)

----------------------------------------------------------------------------
(* lib/wiz-utils.ts *)

ALL_WIZ_MODES == <<"page", "component", "layout", "portal">>

IsSpace(c) == c \in {" ", "\t", "\n", "\r"}

RECURSIVE TrimStart(_)
TrimStart(s) ==
  IF Len(s) > 0 /\ IsSpace(SubSeq(s, 1, 1)) THEN TrimStart(SubSeq(s, 2, Len(s))) ELSE s

RECURSIVE TrimEnd(_)
TrimEnd(s) ==
  IF Len(s) > 0 /\ IsSpace(SubSeq(s, Len(s), Len(s)))
  THEN TrimEnd(SubSeq(s, 1, Len(s) - 1)) ELSE s

\* String.prototype.trim
Trim(s) == TrimEnd(TrimStart(s))

RECURSIVE DotsStart(_, _, _)
\* while (start < end && s.charCodeAt(start) === 46) start++   (start is 0-based)
DotsStart(s, start, end) ==
  IF start < end /\ SubSeq(s, start + 1, start + 1) = "." THEN DotsStart(s, start + 1, end)
  ELSE start

RECURSIVE DotsEnd(_, _, _)
\* while (end > start && s.charCodeAt(end - 1) === 46) end--
DotsEnd(s, start, end) ==
  IF end > start /\ SubSeq(s, end, end) = "." THEN DotsEnd(s, start, end - 1)
  ELSE end

trimDots(s) ==
  LET start == DotsStart(s, 0, Len(s))
      end == DotsEnd(s, start, Len(s))
  IN  SubSeq(s, start + 1, end)

makeDefaultIdPrefix(mode) == IF mode = "portal" THEN "" ELSE mode \o "."

deriveIdAndNamespaceAlwaysPrefix(mode, raw) ==
  LET id == Trim(raw)
      prefix == mode \o "."
      fixedId == prefix \o id
  IN  IF mode = "portal" THEN [id |-> id, namespace |-> id]
      ELSE [id |-> fixedId,
            namespace |-> trimDots(SubSeq(fixedId, Len(prefix) + 1, Len(fixedId)))]

deriveIdAndNamespace(mode, raw) ==
  LET id == Trim(raw)
      prefix == mode \o "."
      fixedId == IF StartsWith(id, prefix) THEN id ELSE prefix \o id
  IN  IF mode = "portal" THEN [id |-> id, namespace |-> id]
      ELSE [id |-> fixedId,
            namespace |-> trimDots(SubSeq(fixedId, Len(prefix) + 1, Len(fixedId)))]

normalizeNamespace(ns) == trimDots(Trim(ns))

RECURSIVE Split(_, _, _)
\* s.split(sep) for a one-character separator; cur is the segment being read
Split(s, sep, cur) ==
  IF Len(s) = 0 THEN <<cur>>
  ELSE IF SubSeq(s, 1, 1) = sep THEN <<cur>> \o Split(SubSeq(s, 2, Len(s)), sep, "")
  ELSE Split(SubSeq(s, 2, Len(s)), sep, cur \o SubSeq(s, 1, 1))

RECURSIVE FilterNonEmpty(_)
\* .filter(Boolean) on strings
FilterNonEmpty(segs) ==
  IF segs = <<>> THEN <<>>
  ELSE IF Head(segs) = "" THEN FilterNonEmpty(Tail(segs))
  ELSE <<Head(segs)>> \o FilterNonEmpty(Tail(segs))

RECURSIVE Join(_, _)
Join(segs, sep) ==
  IF segs = <<>> THEN ""
  ELSE IF Len(segs) = 1 THEN segs[1]
  ELSE segs[1] \o sep \o Join(Tail(segs), sep)

namespaceToDashKeepsEmpty(ns) ==
  LET clean == normalizeNamespace(ns)
  IN  IF clean = "" THEN "" ELSE Join(Split(clean, ".", ""), "-")

namespaceToDash(ns) ==
  LET clean == normalizeNamespace(ns)
  IN  IF clean = "" THEN "" ELSE Join(FilterNonEmpty(Split(clean, ".", "")), "-")

RECURSIVE LastIndexOfSeg(_, _, _)
LastIndexOfSeg(segs, x, i) ==
  IF i = 0 THEN 0 ELSE IF segs[i] = x THEN i ELSE LastIndexOfSeg(segs, x, i - 1)

\* null is [found |-> FALSE]
getPortalFromBaseFsPath(baseFsPath) ==
  LET segs == FilterNonEmpty(Split(baseFsPath, "/", ""))
      idx == LastIndexOfSeg(segs, "portal", Len(segs))
  IN  IF idx = 0 \/ idx + 1 > Len(segs) THEN [found |-> FALSE, appName |-> ""]
      ELSE [found |-> TRUE, appName |-> segs[idx + 1]]

\* a thrown Error is [ok |-> FALSE]
buildTemplate(mode, namespace, baseFsPath) ==
  LET tail == namespaceToDash(namespace)
      dash == IF tail # "" THEN "-" \o tail ELSE ""
      app == getPortalFromBaseFsPath(baseFsPath)
  IN  IF mode = "portal"
      THEN IF ~app.found THEN [ok |-> FALSE, template |-> ""]
           ELSE [ok |-> TRUE, template |-> "wiz-portal-" \o app.appName \o dash \o "()"]
      ELSE [ok |-> TRUE, template |-> "wiz-" \o mode \o dash \o "()"]

----------------------------------------------------------------------------
(* Wiz page contents *)

\* JSON.stringify(..., null, 2) of the app.json object
buildAppJson(mode, id, namespace, template) ==
  "{\n  \"mode\": \"" \o mode \o "\",\n  \"id\": \"" \o id
  \o "\",\n  \"title\": \"\",\n  \"namespace\": \"" \o namespace
  \o "\",\n  \"viewuri\": \"\",\n  \"category\": \"\",\n  \"controller\": \"\",\n"
  \o "  \"ng.build\": {\n    \"id\": \"\",\n    \"name\": \"\",\n    \"path\": \"\"\n  },\n"
  \o "  \"ng\": {\n    \"selector\": \"\",\n    \"inputs\": [],\n    \"outputs\": []\n  },\n"
  \o "  \"template\": \"" \o template \o "\"\n}"

\* Object.entries(DEFAULT_WIZ_FILES), in insertion order
DEFAULT_WIZ_FILES ==
  << [name |-> ".wizpage", text |-> ""],
     [name |-> "view.pug", text |-> "//- wiz page\ndiv\n    | New Wiz Page\n"],
     [name |-> "view.ts",
      text |-> "import { OnInit } from '@angular/core';\nimport { Service } from '@wiz/libs/portal/season/service';\n\nexport class Component implements OnInit {\n    constructor(\n        public service: Service,\n    ) { }\n    \n    public async ngOnInit() {\n        await this.service.render();\n    }\n}\n"],
     [name |-> "view.scss", text |-> "/* New Wiz Page styles */\n"],
     [name |-> "view.html", text |-> ""],
     [name |-> "api.py", text |-> "# New Wiz Page API\n\ndef handler():\n    return {\"ok\": True}\n"],
     [name |-> "socket.py", text |-> ""] >>

----------------------------------------------------------------------------
(* Handlers.  A handler state s = [t, m] pairs the handler's own state t   *)
(* (its arguments, locals and position pc) with the shared state m = [fs,  *)
(* undo, redo, hist].  A step runs from one await to the next: the awaited *)
(* call takes effect and the code after it runs up to the next await.      *)

Min(a, b) == IF a < b THEN a ELSE b

Nil == [type |-> "none"]
EmptySnap == [dirs |-> <<>>, files |-> <<>>]
NoTarget == [kind |-> "none", uri |-> ""]

RecordingCmds == {"newFile", "newFolder", "newWizPage", "rename", "delete", "drop"}

NewTask(cmd, slot, m) ==
  [cmd |-> cmd, slot |-> slot, pc |-> "start",
   \* arguments and locals of the handlers
   uri |-> "", to |-> "", contents |-> "", snap |-> EmptySnap,
   mode |-> "", id |-> "", namespace |-> "", base |-> "", ops |-> <<>>,
   target |-> NoTarget, dragged |-> <<>>, destDir |-> "", i |-> 1, dst |-> "",
   \* the file service refuses to read below the item (an I/O error)
   unreadable |-> FALSE,
   \* the write of createWizPageUndoable the file service refuses (an I/O error): the
   \* i-th default file, or none (0)
   failAt |-> 0,
   reserved |-> {}, renamed |-> <<>>, skipped |-> <<>>, movedPairs |-> <<>>,
   op |-> Nil, calls |-> <<>>, caught |-> FALSE,
   \* what the handler has shown to the user
   notices |-> <<>>,
   \* history of this invocation: read by the properties only
   opId |-> 0, planned |-> <<>>, attempted |-> <<>>, succ |-> <<>>,
   failed |-> FALSE, hung |-> FALSE, delegated |-> FALSE, touched |-> FALSE,
   pushed |-> <<>>, crossed |-> FALSE, clobbered |-> FALSE,
   undoBefore |-> m.undo, redoBefore |-> m.redo, fsBefore |-> m.fs,
   undoIdsBefore |-> m.hist.undoIds]

Done(s) == [s EXCEPT !.t.pc = "done"]
Goto(s, pc) == [s EXCEPT !.t.pc = pc]
Notice(s, kind, arg) == [s EXCEPT !.t.notices = Append(@, [kind |-> kind, arg |-> arg])]
\* an exception that leaves the handler
Throw(s) == [s EXCEPT !.t.pc = "done", !.t.failed = TRUE]

\* a mutating call of a recording command.  History: the handler's successful
\* calls (succ); whether one of them moved an entry onto a path that existed
\* (clobbered); the handlers with a successful call not yet recorded (open);
\* those of them that saw another handler's call succeed meanwhile (split)
Mutate(s, call) ==
  LET Result(r) ==
        [ok |-> r.ok,
         s |-> [t |-> [s.t EXCEPT !.succ = IF r.ok THEN Append(@, call) ELSE @,
                                  !.failed = @ \/ ~r.ok,
                                  !.clobbered = @ \/ (r.ok /\ call.to # ""
                                                        /\ Exists(s.m.fs, call.to))],
                m |-> [s.m EXCEPT
                         !.fs = r.fs,
                         !.hist.split = IF r.ok THEN @ \cup (s.m.hist.open \ {s.t.slot}) ELSE @,
                         !.hist.open = IF r.ok THEN @ \cup {s.t.slot} ELSE @]]]
  IN  Result(FsCall(s.m.fs, call))

\* a faulty pushOp that leaves the redo stack as it is
pushOpKeepRedo(s, op) ==
  LET id == s.m.hist.nextId + 1
  IN  [t |-> [s.t EXCEPT !.pushed = Append(@, op),
                         !.crossed = s.t.slot \in s.m.hist.split],
       m |-> [s.m EXCEPT
                !.undo = Append(@, op),
                !.hist.nextId = id,
                !.hist.undoIds = Append(@, id),
                !.hist.open = @ \ {s.t.slot},
                !.hist.split = @ \ {s.t.slot},
                !.hist.trail = Append(SubSeq(@, 1, Min(Len(@), Len(s.m.undo) + 1)), s.m.fs)]]

\* function pushOp(op) { undoStack.push(op); redoStack.length = 0; }
pushOp(s, op) ==
  LET id == s.m.hist.nextId + 1
  IN  [t |-> [s.t EXCEPT !.pushed = Append(@, op),
                         !.crossed = s.t.slot \in s.m.hist.split],
       m |-> [s.m EXCEPT
                !.undo = Append(@, op),
                !.redo = <<>>,
                !.hist.nextId = id,
                !.hist.undoIds = Append(@, id),
                !.hist.redoIds = <<>>,
                !.hist.open = @ \ {s.t.slot},
                !.hist.split = @ \ {s.t.slot},
                !.hist.trail = Append(SubSeq(@, 1, Min(Len(@), Len(s.m.undo) + 1)), s.m.fs)]]

\* a faulty createFileUndoable that records the create whatever applyEdit returns
createFileUndoableEager(s, fileUri, contents) ==
  pushOp(Mutate(s, CallEditCreate(fileUri, contents)).s,
         [type |-> "createFile", uri |-> fileUri, contents |-> contents])

\* createFileUndoable(fileUri, contents)
createFileUndoable(s, fileUri, contents) ==
  LET Applied(r) ==
        IF ~r.ok THEN Throw(r.s)
        ELSE pushOp(r.s, [type |-> "createFile", uri |-> fileUri, contents |-> contents])
  IN  Applied(Mutate(s, CallEditCreate(fileUri, contents)))

\* mkdirUndoable(folderUri)
mkdirUndoable(s, folderUri) ==
  LET Created(r) ==
        IF ~r.ok THEN Throw(r.s)
        ELSE pushOp(r.s, [type |-> "mkdir", uri |-> folderUri])
  IN  Created(Mutate(s, CallCreateDirectory(folderUri, 0)))

\* renameUndoable(oldUri, newUri)
renameUndoable(s, oldUri, newUri) ==
  LET Applied(r) ==
        IF ~r.ok THEN Throw(r.s)
        ELSE pushOp(r.s, [type |-> "rename", from |-> oldUri, to |-> newUri])
  IN  Applied(Mutate(s, CallEditRename(oldUri, newUri)))

\* deleteFileUndoable(fileUri): statSafe, readFileSafe, then the edit
deleteFileUndoable(s) ==
  CASE s.t.pc = "stat" ->
         IF ~Exists(s.m.fs, s.t.uri) \/ IsDir(s.m.fs, s.t.uri) THEN Done(s)
         ELSE Goto(s, "read")
    [] s.t.pc = "read" ->
         IF ~IsFile(s.m.fs, s.t.uri) THEN Done(s)
         ELSE Goto([s EXCEPT !.t.contents = s.m.fs[s.t.uri].contents], "apply")
    [] s.t.pc = "apply" ->
         LET Applied(r) ==
               IF ~r.ok THEN Throw(r.s)
               ELSE Done(pushOp(r.s, [type |-> "deleteFile", uri |-> s.t.uri,
                                      contents |-> s.t.contents]))
         IN  Applied(Mutate(s, CallEditDelete(s.t.uri)))

\* a faulty rmdirUndoable that deletes the folder and then takes the snapshot
rmdirUndoableLate(s) ==
  CASE s.t.pc = "snapshot" ->
         LET Deleted(r) == IF ~r.ok THEN Throw(r.s) ELSE Goto(r.s, "rmdir")
         IN  Deleted(Mutate(s, CallDelete(s.t.uri, TRUE, 0)))
    [] s.t.pc = "rmdir" ->
         LET Taken(r) ==
               IF ~r.ok \/ s.t.unreadable THEN Throw(s)
               ELSE Done(pushOp(s, [type |-> "rmdir", uri |-> s.t.uri, snapshot |-> r.snap]))
         IN  Taken(snapshotDir(s.m.fs, s.t.uri))

\* rmdirUndoable(folderUri): the snapshot, then the recursive delete
rmdirUndoable(s) ==
  CASE s.t.pc = "snapshot" ->
         LET Taken(r) ==
               IF ~r.ok \/ s.t.unreadable THEN Throw(s)
               ELSE Goto([s EXCEPT !.t.snap = r.snap], "rmdir")
         IN  Taken(snapshotDir(s.m.fs, s.t.uri))
    [] s.t.pc = "rmdir" ->
         LET Deleted(r) ==
               IF ~r.ok THEN Throw(r.s)
               ELSE Done(pushOp(r.s, [type |-> "rmdir", uri |-> s.t.uri,
                                      snapshot |-> s.t.snap]))
         IN  Deleted(Mutate(s, CallDelete(s.t.uri, TRUE, 0)))

\* command wiz.newFile, after the name was entered
wizNewFile(s) ==
  CASE s.t.pc = "start" -> Goto(s, "exists")
    [] s.t.pc = "exists" ->
         IF Exists(s.m.fs, s.t.uri) THEN Done(Notice(s, "error", "exists"))
         ELSE Goto(s, "create")
    [] s.t.pc = "create" -> Done(createFileUndoable(s, s.t.uri, ""))

wizNewFolderNoCheck(s) ==
  CASE s.t.pc = "start" -> Goto(s, "exists")
    [] s.t.pc = "exists" -> Goto(s, "create")
    [] s.t.pc = "create" -> Done(mkdirUndoable(s, s.t.uri))

\* command wiz.newFolder, after the name was entered
wizNewFolder(s) ==
  CASE s.t.pc = "start" -> Goto(s, "exists")
    [] s.t.pc = "exists" ->
         IF Exists(s.m.fs, s.t.uri) THEN Done(Notice(s, "error", "exists"))
         ELSE Goto(s, "create")
    [] s.t.pc = "create" -> Done(mkdirUndoable(s, s.t.uri))

\* command wiz.rename: s.t.uri is the item, s.t.to the new uri
wizRename(s) ==
  CASE s.t.pc = "start" ->
         IF Basename(s.t.to) = Basename(s.t.uri) THEN Done(s) ELSE Goto(s, "exists")
    [] s.t.pc = "exists" ->
         IF Exists(s.m.fs, s.t.to) THEN Done(Notice(s, "error", "exists"))
         ELSE Goto(s, "rename")
    [] s.t.pc = "rename" -> Done(renameUndoable(s, s.t.uri, s.t.to))

\* command wiz.delete, after the confirmation
wizDelete(s) ==
  CASE s.t.pc = "start" -> Goto(s, "type")
    [] s.t.pc = "type" ->
         IF ~Exists(s.m.fs, s.t.uri) THEN Done(s)
         ELSE IF IsDir(s.m.fs, s.t.uri) THEN Goto(s, "snapshot")
         ELSE Goto(s, "stat")
    [] s.t.pc \in {"snapshot", "rmdir"} -> rmdirUndoable(s)
    [] s.t.pc \in {"stat", "read", "apply"} -> deleteFileUndoable(s)

\* createWizPageUndoable(parentDir, folderName, mode, id, namespace); an
\* exception leaves it and is caught and shown by wiz.newWizPage
createWizPageUndoable(s) ==
  LET wizDir == s.t.uri
  IN
  CASE s.t.pc = "exists" ->
         IF Exists(s.m.fs, wizDir) THEN Done(Notice(s, "error", "exists"))
         ELSE Goto(s, "mkdir")
    [] s.t.pc = "mkdir" ->
         LET Created(r) ==
               IF ~r.ok THEN Done(Notice(r.s, "error", "io"))
               ELSE Goto([r.s EXCEPT !.t.ops = <<[type |-> "mkdir", uri |-> wizDir]>>,
                                     !.t.i = 1], "file")
         IN  Created(Mutate(s, CallCreateDirectory(wizDir, 0)))
    [] s.t.pc = "file" ->
         LET Written(r, op) ==
               IF ~r.ok THEN Done(Notice(r.s, "error", "io"))
               ELSE Goto([r.s EXCEPT !.t.ops = Append(@, op), !.t.i = @ + 1],
                         IF s.t.i = Len(DEFAULT_WIZ_FILES) THEN "appjson" ELSE "file")
             Write(fileUri, text) ==
               Written(Mutate(s, CallWriteFile(fileUri, text, 0)),
                       [type |-> "createFile", uri |-> fileUri, contents |-> text])
         IN  IF s.t.failAt = s.t.i THEN Done(Notice([s EXCEPT !.t.failed = TRUE], "error", "io"))
             ELSE Write(JoinPath(wizDir, DEFAULT_WIZ_FILES[s.t.i].name), DEFAULT_WIZ_FILES[s.t.i].text)
    [] s.t.pc = "appjson" ->
         LET Written(r, op) ==
               IF ~r.ok THEN Done(Notice(r.s, "error", "io"))
               ELSE Done(pushOp(r.s, [type |-> "batch", ops |-> Append(s.t.ops, op)]))
             Write(fileUri, data) ==
               Written(Mutate(s, CallWriteFile(fileUri, data, 0)),
                       [type |-> "createFile", uri |-> fileUri, contents |-> data])
             Built(tpl) ==
               IF ~tpl.ok THEN Done(Notice(s, "error", "portal"))
               ELSE Write(JoinPath(wizDir, "app.json"),
                          buildAppJson(s.t.mode, s.t.id, s.t.namespace, tpl.template))
         IN  Built(buildTemplate(s.t.mode, s.t.namespace, s.t.base))

\* command wiz.newWizPage: s.t.base is the base directory, s.t.mode the mode
\* picked, s.t.contents the name entered
wizNewWizPage(s) ==
  CASE s.t.pc = "start" -> Goto(s, "isWiz")
    [] s.t.pc = "isWiz" ->
         LET Named(d) ==
               Goto([s EXCEPT !.t.id = d.id, !.t.namespace = d.namespace,
                              !.t.uri = JoinPath(s.t.base, d.id)], "exists")
         IN  IF isWizFolder(s.m.fs, s.t.base) THEN Done(Notice(s, "error", "insideWiz"))
             ELSE IF s.t.mode = "portal" /\ ~getPortalFromBaseFsPath(s.t.base).found
             THEN Done(Notice(s, "error", "portal"))
             ELSE Named(deriveIdAndNamespace(s.t.mode, s.t.contents))
    [] OTHER -> createWizPageUndoable(s)

----------------------------------------------------------------------------
(* SeasonExplorerDnD.handleDrop *)

reserveKey(u) == ToLowerCase(u)

\* a faulty batch record with the two paths of every move exchanged
DropRecordSwapped(s) ==
  [type |-> "batch",
   ops |-> [k \in DOMAIN s.t.movedPairs |->
              [type |-> "rename", from |-> s.t.movedPairs[k].to,
               to |-> s.t.movedPairs[k].from]]]

\* { type: "batch", ops: movedPairs.map(p => ({ type: "rename", from, to })) }
DropRecord(s) ==
  [type |-> "batch",
   ops |-> [k \in DOMAIN s.t.movedPairs |->
              [type |-> "rename", from |-> s.t.movedPairs[k].from,
               to |-> s.t.movedPairs[k].to]]]

\* a faulty end of the drop that records a batch even when nothing was moved
DropFinishAlways(s) == Done(pushOp(s, DropRecord(s)))

\* after the loop and its catch: record the completed moves as one batch
DropFinish(s) ==
  IF s.t.movedPairs = <<>>
  THEN Done(IF s.t.skipped # <<>> THEN Notice(s, "info", "nothingToMove") ELSE s)
  ELSE LET Summary(p) ==
             Done(IF s.t.renamed # <<>> \/ s.t.skipped # <<>>
                  THEN Notice(p, "summary",
                              [renamed |-> Len(s.t.renamed), skipped |-> Len(s.t.skipped),
                               detail |-> SubSeq(s.t.renamed, 1, Min(5, Len(s.t.renamed)))
                                          \o SubSeq(s.t.skipped, 1, Min(5, Len(s.t.skipped)))])
                  ELSE p)
       IN  Summary(pushOp(s, DropRecord(s)))

\* catch (e) { showErrorMessage("Move error: ...") } around the whole loop
DropCatch(s) == DropFinish(Notice([s EXCEPT !.t.failed = TRUE], "error", "moveError"))

\* a faulty head of the loop that leaves the loop at a source whose parent is
\* the destination
DropNextStop(s) ==
  IF s.t.i > Len(s.t.dragged) THEN DropFinish(s)
  ELSE IF Dirname(s.t.dragged[s.t.i]) = s.t.destDir THEN DropFinish(s)
  ELSE Goto(s, "srcWiz")

RECURSIVE DropNext(_)
\* the head of the loop, up to its first await: a source whose parent is the
\* destination is passed over
DropNext(s) ==
  IF s.t.i > Len(s.t.dragged) THEN DropFinish(s)
  ELSE IF Dirname(s.t.dragged[s.t.i]) = s.t.destDir THEN DropNext([s EXCEPT !.t.i = @ + 1])
  ELSE Goto(s, "srcWiz")

\* a destination was picked: pick again while it is reserved, else reserve it
DropPicked(s, dst) ==
  LET src == s.t.dragged[s.t.i]
      baseName == Basename(src)
      dstName == Basename(dst)
      s1 == [s EXCEPT !.t.dst = dst]
      s2 == [s1 EXCEPT !.t.reserved = @ \cup {reserveKey(dst)}]
      s3 == IF dstName # baseName
            THEN [s2 EXCEPT !.t.renamed = Append(@, [from |-> baseName, to |-> dstName])]
            ELSE s2
  IN  IF reserveKey(dst) \in s.t.reserved THEN Goto(s1, "repick")
      ELSE IF src = dst THEN DropNext([s2 EXCEPT !.t.i = @ + 1])
      ELSE Goto(s3, "move")

handleDrop(s) ==
  LET target == s.t.target
      destDir == IF target.kind = "none" THEN getWorkspaceFolder(s.t.dragged[1])
                 ELSE IF target.kind \in {"workspace", "folder"} THEN target.uri
                 ELSE Dirname(target.uri)
      src == s.t.dragged[s.t.i]
  IN
  CASE s.t.pc = "start" ->
         IF s.t.dragged = <<>> THEN Done(s)
         ELSE IF target.kind = "modeGroup" THEN Done(s)
         ELSE IF target.kind # "none" /\ target.uri = "" THEN Done(s)
         ELSE IF target.kind = "wizFolder" THEN Done(Notice(s, "info", "intoWiz"))
         ELSE Goto([s EXCEPT !.t.destDir = destDir, !.t.i = 1], "destWiz")
    [] s.t.pc = "destWiz" ->
         IF isWizFolder(s.m.fs, s.t.destDir) THEN Done(Notice(s, "info", "intoWiz"))
         ELSE DropNext(s)
    [] s.t.pc = "srcWiz" ->
         IF isWizFolder(s.m.fs, src)
         THEN DropNext([Notice(s, "info", "wizSource") EXCEPT !.t.i = @ + 1])
         ELSE Goto(s, "pick")
    [] s.t.pc \in {"pick", "repick"} ->
         LET Picked(r) == IF ~r.ok THEN DropCatch(s) ELSE DropPicked(s, r.uri)
         IN  Picked(pickNonConflictingUri(s.m.fs, s.t.destDir,
                                          Basename(IF s.t.pc = "pick" THEN src ELSE s.t.dst)))
    [] s.t.pc = "move" ->
         LET Moved(r) ==
               IF ~r.ok THEN DropCatch(r.s)
               ELSE DropNext([r.s EXCEPT
                                !.t.movedPairs = Append(@, [from |-> src, to |-> s.t.dst]),
                                !.t.i = @ + 1])
         IN  Moved(Mutate(s, CallRename(src, s.t.dst, 0)))

----------------------------------------------------------------------------
(* seasonExplorer.undo and seasonExplorer.redo *)

\* undo, one inner operation of a batch (the if-chain inside case "batch")
UndoInner(inner, i) ==
  CASE inner.type = "rename" -> <<CallRename(inner.to, inner.from, i)>>
    [] inner.type = "createFile" -> <<CallDelete(inner.uri, FALSE, i)>>
    [] inner.type = "deleteFile" ->
         <<CallCreateDirectory(Dirname(inner.uri), i), CallWriteFile(inner.uri, inner.contents, i)>>
    [] inner.type = "mkdir" -> <<CallDelete(inner.uri, TRUE, i)>>
    [] inner.type = "rmdir" -> restoreDir(inner.uri, inner.snapshot, i)
    [] OTHER -> <<>>

RECURSIVE UndoBatchForward(_, _)
\* a faulty loop over the batch, from its first inner operation to its last
UndoBatchForward(ops, i) ==
  IF i = 0 THEN <<>> ELSE UndoBatchForward(ops, i - 1) \o UndoInner(ops[i], i)

RECURSIVE UndoBatch(_, _)
\* for (let i = op.ops.length - 1; i >= 0; i--)
UndoBatch(ops, i) ==
  IF i = 0 THEN <<>> ELSE UndoInner(ops[i], i) \o UndoBatch(ops, i - 1)

\* undo, the switch over the record's type: the calls it makes, in order
UndoCalls(op) ==
  CASE op.type = "createFile" -> <<CallDelete(op.uri, FALSE, 0)>>
    [] op.type = "deleteFile" ->
         <<CallCreateDirectory(Dirname(op.uri), 0), CallWriteFile(op.uri, op.contents, 0)>>
    [] op.type = "batch" -> UndoBatch(op.ops, Len(op.ops))
    [] op.type = "rename" -> <<CallRename(op.to, op.from, 0)>>
    [] op.type = "mkdir" -> <<CallDelete(op.uri, TRUE, 0)>>
    [] op.type = "rmdir" -> restoreDir(op.uri, op.snapshot, 0)

\* redo, one inner operation of a batch
RedoInner(inner, i) ==
  CASE inner.type = "rename" -> <<CallRename(inner.from, inner.to, i)>>
    [] inner.type = "createFile" -> <<CallWriteFile(inner.uri, inner.contents, i)>>
    [] inner.type = "deleteFile" -> <<CallDelete(inner.uri, FALSE, i)>>
    [] inner.type = "mkdir" -> <<CallCreateDirectory(inner.uri, i)>>
    [] inner.type = "rmdir" -> <<CallDelete(inner.uri, TRUE, i)>>
    [] OTHER -> <<>>

RECURSIVE RedoBatch(_, _)
\* for (const inner of op.ops)
RedoBatch(ops, i) ==
  IF i > Len(ops) THEN <<>> ELSE RedoInner(ops[i], i) \o RedoBatch(ops, i + 1)

\* redo, the switch over the record's type
RedoCalls(op) ==
  CASE op.type = "createFile" -> <<CallWriteFile(op.uri, op.contents, 0)>>
    [] op.type = "deleteFile" -> <<CallDelete(op.uri, FALSE, 0)>>
    [] op.type = "batch" -> RedoBatch(op.ops, 1)
    [] op.type = "rename" -> <<CallRename(op.from, op.to, 0)>>
    [] op.type = "mkdir" -> <<CallCreateDirectory(op.uri, 0)>>
    [] op.type = "rmdir" -> <<CallDelete(op.uri, TRUE, 0)>>

\* redoStack.push(op), the last statement of the try block of undo
UndoPush(s) ==
  [s EXCEPT !.m.redo = Append(@, s.t.op), !.m.hist.redoIds = Append(@, s.t.opId)]

\* undoStack.push(op), the last statement of the try block of redo
RedoPush(s) ==
  [s EXCEPT !.m.undo = Append(@, s.t.op), !.m.hist.undoIds = Append(@, s.t.opId)]

\* the next awaited call of an undo or a redo
Attempt(s) ==
  LET Result(c, r) ==
        [ok |-> r.ok,
         s |-> [s EXCEPT !.m.fs = r.fs, !.t.calls = Tail(@), !.t.attempted = Append(@, c),
                         !.t.failed = @ \/ ~r.ok]]
  IN  Result(Head(s.t.calls), FsCall(s.m.fs, Head(s.t.calls)))

seasonExplorerUndo(s) ==
  CASE s.t.pc = "start" ->
         IF s.m.undo = <<>> THEN Done([s EXCEPT !.t.delegated = TRUE])
         ELSE LET Begin(s1) ==
                    IF s1.t.calls = <<>> THEN Done(UndoPush(s1)) ELSE Goto(s1, "call")
                  Popped(op, calls) ==
                    Begin([s EXCEPT !.m.undo = SubSeq(@, 1, Len(@) - 1),
                                    !.m.hist.undoIds = SubSeq(@, 1, Len(@) - 1),
                                    !.m.hist.undoAt = s.m.hist.nextId,
                                    !.t.op = op,
                                    !.t.opId = s.m.hist.undoIds[Len(s.m.undo)],
                                    !.t.calls = calls,
                                    !.t.planned = calls,
                                    !.t.caught = (op.type = "deleteFile")])
              IN  Popped(s.m.undo[Len(s.m.undo)], UndoCalls(s.m.undo[Len(s.m.undo)]))
    [] s.t.pc = "call" ->
         LET Called(r) ==
               IF r.ok THEN (IF r.s.t.calls = <<>> THEN Done(UndoPush(r.s)) ELSE r.s)
               ELSE IF s.t.caught
               THEN Done(UndoPush(Notice(r.s, "error", "undoRestoreFailed")))
               ELSE Throw(r.s)
         IN  Called(Attempt(s))

seasonExplorerRedo(s) ==
  CASE s.t.pc = "start" ->
         IF s.m.redo = <<>> THEN Done([s EXCEPT !.t.delegated = TRUE])
         ELSE LET Begin(s1) ==
                    IF s1.t.calls = <<>> THEN Done(RedoPush(s1)) ELSE Goto(s1, "call")
                  Popped(op, calls) ==
                    Begin([s EXCEPT !.m.redo = SubSeq(@, 1, Len(@) - 1),
                                    !.m.hist.redoIds = SubSeq(@, 1, Len(@) - 1),
                                    !.t.op = op,
                                    !.t.opId = s.m.hist.redoIds[Len(s.m.redo)],
                                    !.t.calls = calls,
                                    !.t.planned = calls])
              IN  Popped(s.m.redo[Len(s.m.redo)], RedoCalls(s.m.redo[Len(s.m.redo)]))
    [] s.t.pc = "call" ->
         LET Called(r) ==
               IF r.ok THEN (IF r.s.t.calls = <<>> THEN Done(RedoPush(r.s)) ELSE r.s)
               ELSE Throw(r.s)
         IN  Called(Attempt(s))

----------------------------------------------------------------------------
(* Running handlers *)

Handler(s) ==
  CASE s.t.cmd = "newFile" -> wizNewFile(s)
    [] s.t.cmd = "newFolder" -> wizNewFolder(s)
    [] s.t.cmd = "newWizPage" -> wizNewWizPage(s)
    [] s.t.cmd = "rename" -> wizRename(s)
    [] s.t.cmd = "delete" -> wizDelete(s)
    [] s.t.cmd = "drop" -> handleDrop(s)
    [] s.t.cmd = "undo" -> seasonExplorerUndo(s)
    [] s.t.cmd = "redo" -> seasonExplorerRedo(s)

\* one step of a handler; notes whether it changed a stack
Step(s) ==
  LET Stepped(r) ==
        [r EXCEPT !.t.touched = @ \/ r.m.undo # s.m.undo \/ r.m.redo # s.m.redo]
  IN  Stepped(Handler(s))

RECURSIVE RunAll(_, _)
\* a handler run from its invocation to its end without interruption
RunAll(s, fuel) ==
  IF s.t.pc = "done" THEN s
  ELSE IF fuel = 0 THEN [s EXCEPT !.t.hung = TRUE]
  ELSE RunAll(Step(s), fuel - 1)

\* the shared state once the handler has ended
Finish(s) ==
  [s.m EXCEPT !.hist.done = s.t,
              !.hist.hung = @ \/ s.t.hung,
              !.hist.open = @ \ {s.t.slot},
              !.hist.split = @ \ {s.t.slot}]

Machine == [fs |-> fs, undo |-> undoStack, redo |-> redoStack, hist |-> hist]

\* the shared state as a command is invoked
Invoked(cmd, atomic) ==
  [Machine EXCEPT !.hist.ops = IF cmd \in RecordingCmds THEN @ + 1 ELSE @,
                  !.hist.undos = IF cmd \notin RecordingCmds /\ ~atomic THEN @ + 1 ELSE @]

Commit(m) ==
  /\ fs' = m.fs
  /\ undoStack' = m.undo
  /\ redoStack' = m.redo
  /\ hist' = m.hist
  /\ session' = session

\* may the command be invoked now?  atomic: the host serializes the commands
CanStart(cmd, atomic) ==
  IF atomic
  THEN /\ DOMAIN tasks = {}
       /\ cmd \in RecordingCmds => hist.ops + hist.ext < MaxOps
  ELSE /\ Cardinality(DOMAIN tasks) < MaxInFlight
       /\ cmd \in RecordingCmds => hist.ops < MaxOpsConc
       /\ cmd \notin RecordingCmds => hist.undos < MaxUndoConc

FreeSlot == CHOOSE k \in 1..MaxInFlight : k \notin DOMAIN tasks

\* invoke a handler: run it to its end (atomic), or up to its first await
Invoke(t0, atomic) ==
  IF atomic
  THEN /\ Commit(Finish(RunAll([t |-> t0, m |-> Invoked(t0.cmd, atomic)], MaxSteps)))
       /\ tasks' = tasks
  ELSE LET Begun(s) ==
             IF s.t.pc = "done"
             THEN Commit(Finish(s)) /\ tasks' = tasks
             ELSE /\ Commit(s.m)
                  /\ tasks' = [k \in DOMAIN tasks \cup {t0.slot} |->
                                 IF k = t0.slot THEN s.t ELSE tasks[k]]
       IN  Begun(Step([t |-> t0, m |-> Invoked(t0.cmd, atomic)]))

Slot(atomic) == IF atomic THEN 1 ELSE FreeSlot

----------------------------------------------------------------------------
(* The workspace at activation and the inputs of the commands *)

InitialFs ==
  [p \in {"/w", "/w/a", "/w/a/x.txt", "/w/b", "/w/b/x.txt", "/v"} |->
     CASE p = "/w/a/x.txt" -> FileEntry("one")
       [] p = "/w/b/x.txt" -> FileEntry("two")
       [] OTHER -> DirEntry]

\* tree items the commands are invoked on; the interleaved specification
\* draws from fewer of them, and its wiz page is the one the handler rejects
\* (a portal page outside a portal folder)
BaseDirs(atomic) == IF atomic THEN {"/w", "/w/a"} ELSE {"/w"}
Items(atomic) ==
  IF atomic THEN {"/w/a", "/w/a/x.txt", "/w/b/x.txt", "/w/n.txt", "/w/page.n"}
  ELSE {"/w/a", "/w/a/x.txt"}
\* names entered for a new file; "api.py" turns its folder into a Wiz folder
FileNames(atomic) == IF atomic THEN {"n.txt", "api.py"} ELSE {"n.txt"}
FolderNames == {"d"}
RenameNames == {"y.txt"}
\* the names entered for an item: an entry of the workspace folder may also be given
\* the name of the folder "b" next to it
RenameNamesFor(item, atomic) ==
  IF atomic /\ Dirname(item) = "/w" THEN RenameNames \cup {"b"}
  ELSE IF atomic /\ item = "/w/a/x.txt" THEN RenameNames \cup {"X.txt"}
  ELSE RenameNames
WizInputs(atomic) ==
  IF atomic THEN {<<"page", "page.n">>, <<"portal", "n">>} ELSE {<<"portal", "n">>}

\* does readDirectory or readFile throw while the folder is snapshotted?
ReadErrors(atomic) == IF atomic THEN {FALSE, TRUE} ELSE {FALSE}
\* which write throws when the file service fails while a Wiz page is created?
WriteErrors == {3}

\* dragged sources and drop targets
DragItems == {"/w/a/x.txt", "/w/b/x.txt", "/w/a", "/w/page.n", "/w/api.py"}
DragLists(atomic) ==
  IF atomic
  THEN {<<>>} \cup {<<u>> : u \in DragItems}
         \cup {<<"/w/a/x.txt", "/w/b/x.txt">>, <<"/w/a", "/w/b/x.txt">>, <<"/w/b/x.txt", "/w/a">>,
                <<"/w/page.n", "/w/a/x.txt">>, <<"/w/b/x.txt", "/w/a/X.txt">>,
                <<"/w/a", "/w/b/x.txt", "/w/a/X.txt">>}
  ELSE {<<"/w/a/x.txt", "/w/b/x.txt">>}
TargetUris(atomic) ==
  IF atomic THEN {"/w", "/w/a", "/w/b", "/w/b/x.txt", "/w/page.n", "/v"} ELSE {"/w"}

\* the tree shows an entry when it lies in a workspace folder and below no
\* Wiz folder other than the workspace folder itself: getChildren lists the
\* children of the workspace and folder nodes only
Visible(f, u) ==
  /\ u \in DOMAIN f
  /\ \E r \in Roots : u = r \/ IsUnder(u, r)
  /\ \A a \in Ancestors(u) : IsUnder(a, getWorkspaceFolder(u)) => ~isWizFolder(f, a)

\* the tree node shown for an entry (WizExplorerProvider.getChildren)
NodeOf(f, u) ==
  [kind |-> IF u \in Roots THEN "workspace"
            ELSE IF isWizFolder(f, u) THEN "wizFolder"
            ELSE IF IsDir(f, u) THEN "folder"
            ELSE "file",
   uri |-> u]

\* getChildren puts a mode group under a workspace or folder node for the Wiz
\* folders that lie directly in it; a mode group has no uri
ModeGroups(f) ==
  IF \E d \in DOMAIN f : /\ Visible(f, d) /\ d \notin Roots /\ isWizFolder(f, d)
  THEN {[kind |-> "modeGroup", uri |-> ""]} ELSE {}

Targets(f, atomic) ==
  (IF atomic THEN {NoTarget} \cup ModeGroups(f) ELSE {})
    \cup {NodeOf(f, u) : u \in {v \in TargetUris(atomic) : Visible(f, v)}}

InitHist ==
  [ops |-> 0, undos |-> 0, ext |-> 0, nextId |-> 0, undoAt |-> 0, undoIds |-> <<>>, redoIds |-> <<>>,
   open |-> {}, split |-> {}, trail |-> <<InitialFs>>, hung |-> FALSE,
   done |-> NewTask("none", 0, [undo |-> <<>>, redo |-> <<>>, fs |-> InitialFs,
                                hist |-> [undoIds |-> <<>>]])]

Init ==
  /\ fs = InitialFs
  /\ undoStack = <<>>
  /\ redoStack = <<>>
  /\ tasks = <<>>
  /\ session = NoSession
  /\ hist = InitHist

----------------------------------------------------------------------------
(* Actions: one per command *)

NewFile(atomic) ==
  /\ CanStart("newFile", atomic)
  /\ \E base \in BaseDirs(atomic), name \in FileNames(atomic) :
       /\ IsDir(fs, base)
       /\ Invoke([NewTask("newFile", Slot(atomic), Machine) EXCEPT !.uri = JoinPath(base, name)],
                 atomic)

NewFolder(atomic) ==
  /\ CanStart("newFolder", atomic)
  /\ \E base \in BaseDirs(atomic), name \in FolderNames :
       /\ IsDir(fs, base)
       /\ Invoke([NewTask("newFolder", Slot(atomic), Machine) EXCEPT !.uri = JoinPath(base, name)],
                 atomic)

NewWizPage(atomic) ==
  /\ CanStart("newWizPage", atomic)
  /\ \E base \in BaseDirs(atomic), in \in WizInputs(atomic) :
       /\ IsDir(fs, base)
       /\ Invoke([NewTask("newWizPage", Slot(atomic), Machine) EXCEPT
                    !.base = base, !.mode = in[1], !.contents = in[2]], atomic)

\* wiz.newWizPage while the file service fails: one of the writes throws
NewWizPageWriteError ==
  /\ CanStart("newWizPage", TRUE)
  /\ \E base \in BaseDirs(TRUE), in \in WizInputs(TRUE), failAt \in WriteErrors :
       /\ IsDir(fs, base)
       /\ Invoke([NewTask("newWizPage", Slot(TRUE), Machine) EXCEPT
                    !.base = base, !.mode = in[1], !.contents = in[2], !.failAt = failAt],
                 TRUE)

Rename(atomic) ==
  /\ CanStart("rename", atomic)
  /\ \E item \in {u \in Items(atomic) : Visible(fs, u)} :
     \E name \in RenameNamesFor(item, atomic) :
       Invoke([NewTask("rename", Slot(atomic), Machine) EXCEPT
                 !.uri = item, !.to = JoinPath(Dirname(item), name)], atomic)

Delete(atomic) ==
  /\ CanStart("delete", atomic)
  /\ \E item \in {u \in Items(atomic) : Visible(fs, u)}, unreadable \in ReadErrors(atomic) :
       /\ unreadable => IsDir(fs, item)
       /\ Invoke([NewTask("delete", Slot(atomic), Machine) EXCEPT
                    !.uri = item, !.unreadable = unreadable], atomic)

Drop(atomic) ==
  /\ CanStart("drop", atomic)
  /\ \E dragged \in DragLists(atomic), target \in Targets(fs, atomic) :
       /\ dragged = <<>> => target = NoTarget
       /\ \A k \in DOMAIN dragged : Visible(fs, dragged[k])
       /\ Invoke([NewTask("drop", Slot(atomic), Machine) EXCEPT
                    !.dragged = dragged, !.target = target], atomic)

Undo(atomic) ==
  /\ CanStart("undo", atomic)
  /\ Invoke(NewTask("undo", Slot(atomic), Machine), atomic)

Redo(atomic) ==
  /\ CanStart("redo", atomic)
  /\ Invoke(NewTask("redo", Slot(atomic), Machine), atomic)

\* a handler in flight resumes after its await
StepTask ==
  \E k \in DOMAIN tasks :
    LET Resumed(s) ==
          IF s.t.pc = "done"
          THEN /\ Commit(Finish(s))
               /\ tasks' = [j \in DOMAIN tasks \ {k} |-> tasks[j]]
          ELSE /\ Commit(s.m)
               /\ tasks' = [tasks EXCEPT ![k] = s.t]
    IN  Resumed(Step([t |-> tasks[k], m |-> Machine]))

\* the entries other programs remove or write
ExternalPaths == {"/w/a/x.txt", "/w/n.txt", "/w/d"}

\* another program removes an entry of the workspace
ExternalDelete ==
  /\ DOMAIN tasks = {}
  /\ hist.ext < MaxExternal /\ hist.ops + hist.ext < MaxOps
  /\ \E p \in ExternalPaths \cap DOMAIN fs :
       /\ fs' = Remove(fs, Subtree(fs, p))
       /\ hist' = [hist EXCEPT !.ext = @ + 1]
       /\ UNCHANGED <<undoStack, redoStack, tasks, session>>

\* another program writes a file into the workspace
ExternalWrite ==
  /\ DOMAIN tasks = {}
  /\ hist.ext < MaxExternal /\ hist.ops + hist.ext < MaxOps
  /\ \E p \in ExternalPaths :
       /\ FsWriteFile(fs, p, "ext").ok
       /\ fs' = FsWriteFile(fs, p, "ext").fs
       /\ hist' = [hist EXCEPT !.ext = @ + 1]
       /\ UNCHANGED <<undoStack, redoStack, tasks, session>>

\* the host runs one command at a time and nothing else touches the workspace
Next ==
  \/ NewFile(TRUE) \/ NewFolder(TRUE) \/ NewWizPage(TRUE) \/ Rename(TRUE)
  \/ Delete(TRUE) \/ Drop(TRUE) \/ Undo(TRUE) \/ Redo(TRUE)

Spec == Init /\ [][Next]_vars

\* one command at a time, while other programs change the workspace and the file
\* service may fail
NextEnv == Next \/ ExternalDelete \/ ExternalWrite \/ NewWizPageWriteError

SpecEnv == Init /\ [][NextEnv]_vars

\* the handlers interleave at their await points
NextConc ==
  \/ NewFile(FALSE) \/ NewFolder(FALSE) \/ NewWizPage(FALSE) \/ Rename(FALSE)
  \/ Delete(FALSE) \/ Drop(FALSE) \/ Undo(FALSE) \/ Redo(FALSE)
  \/ StepTask

SpecConc == Init /\ [][NextConc]_vars

----------------------------------------------------------------------------
(* The name-conflict resolver on its own: a directory with some of the     *)
(* names taken, a desired name, and the caller creating the entry it got   *)

PickDir == "/d"
TakenFiles == {"a.txt", "a (1).txt", "a (2).txt", ".b", ".b (1)"}
TakenFolders == {"a", "a (1)"}
DesiredNames == {"a.txt", "a", ".b", "a (1).txt"}

PickFs(S) ==
  [p \in {PickDir} \cup {JoinPath(PickDir, n) : n \in S} |->
     IF p = PickDir \/ Basename(p) \in TakenFolders THEN DirEntry ELSE FileEntry("")]

NoPick == [desired |-> "", result |-> [ok |-> FALSE, uri |-> ""], before |-> << >>, taken |-> 0]

InitPick ==
  /\ fs \in {PickFs(S) : S \in SUBSET (TakenFiles \cup TakenFolders)}
  /\ undoStack = <<>>
  /\ redoStack = <<>>
  /\ tasks = <<>>
  /\ session = NoSession
  /\ hist = NoPick

\* pickNonConflictingUri(destDir, baseName) is called
PickName ==
  /\ \E name \in DesiredNames :
       hist' = [hist EXCEPT !.desired = name,
                            !.result = pickNonConflictingUri(fs, PickDir, name),
                            !.before = fs]
  /\ UNCHANGED <<fs, undoStack, redoStack, tasks, session>>

\* the caller creates the entry at the path it was given
TakeName ==
  /\ hist.result.ok
  /\ hist.taken < MaxTaken
  /\ ~Exists(fs, hist.result.uri)
  /\ fs' = Put(fs, hist.result.uri, FileEntry(""))
  /\ hist' = [hist EXCEPT !.taken = @ + 1]
  /\ UNCHANGED <<undoStack, redoStack, tasks, session>>

NextPick == PickName \/ TakeName

SpecPick == InitPick /\ [][NextPick]_vars

----------------------------------------------------------------------------
(* The snapshot engine on its own: a directory tree is snapshotted, the     *)
(* directory is removed or emptied, and the snapshot is restored into it    *)

SnapRoot == "/t"
SnapDirs == {"/t/d", "/t/d/e", "/t/longer"}
SnapFiles == {"/t/f", "/t/d/g", "/t/d/e/h"}
SnapContents == {"", "x"}

\* the trees below SnapRoot: every entry has its parent directory
SnapTrees ==
  {S \in SUBSET (SnapDirs \cup SnapFiles) :
     \A p \in S : Dirname(p) = SnapRoot \/ Dirname(p) \in S}

SnapFs(S, c) ==
  [p \in {SnapRoot} \cup S |-> IF p \in SnapFiles THEN FileEntry(IF p = "/t/f" THEN c ELSE "h")
                               ELSE DirEntry]

RECURSIVE ApplyCalls(_, _)
\* the awaited calls one after the other; the first that throws ends them
ApplyCalls(f, calls) ==
  IF calls = <<>> THEN Ok(f)
  ELSE LET Next1(r) == IF r.ok THEN ApplyCalls(r.fs, Tail(calls)) ELSE r
       IN  Next1(FsCall(f, Head(calls)))

InitSnap ==
  /\ fs \in {SnapFs(S, c) : S \in SnapTrees, c \in SnapContents}
  /\ undoStack = <<>>
  /\ redoStack = <<>>
  /\ tasks = <<>>
  /\ session = NoSession
  /\ hist = [phase |-> "tree", snap |-> EmptySnap, before |-> << >>, cleared |-> << >>,
             ok |-> TRUE]

\* snapshotDir(root)
TakeSnapshot ==
  /\ hist.phase = "tree"
  /\ hist' = [hist EXCEPT !.phase = "taken", !.snap = snapshotDir(fs, SnapRoot).snap,
                           !.ok = snapshotDir(fs, SnapRoot).ok, !.before = fs]
  /\ UNCHANGED <<fs, undoStack, redoStack, tasks, session>>

\* the directory is removed with all it holds
RemoveDir ==
  /\ hist.phase = "taken"
  /\ fs' = FsDelete(fs, SnapRoot, TRUE).fs
  /\ hist' = [hist EXCEPT !.phase = "cleared"]
  /\ UNCHANGED <<undoStack, redoStack, tasks, session>>

\* the directory is emptied and stays
EmptyDir ==
  /\ hist.phase = "taken"
  /\ fs' = FsCreateDirectory(FsDelete(fs, SnapRoot, TRUE).fs, SnapRoot).fs
  /\ hist' = [hist EXCEPT !.phase = "cleared"]
  /\ UNCHANGED <<undoStack, redoStack, tasks, session>>

\* restoreDir(root, snap)
RestoreDir ==
  /\ hist.phase = "cleared"
  /\ fs' = ApplyCalls(fs, restoreDir(SnapRoot, hist.snap, 0)).fs
  /\ hist' = [hist EXCEPT !.phase = "restored", !.cleared = fs,
                           !.ok = ApplyCalls(fs, restoreDir(SnapRoot, hist.snap, 0)).ok]
  /\ UNCHANGED <<undoStack, redoStack, tasks, session>>

NextSnap == TakeSnapshot \/ RemoveDir \/ EmptyDir \/ RestoreDir

SpecSnap == InitSnap /\ [][NextSnap]_vars

----------------------------------------------------------------------------
(* The document session of one Wiz folder: the editing surface of          *)
(* media/wiz/app.js and the panel of WizFolderEditorProvider, which talk   *)
(* by messages; the files of the folder are entries of fs                  *)

WIZ_FILES ==
  [info |-> "app.json", pug |-> "view.pug", ts |-> "view.ts", scss |-> "view.scss",
   html |-> "view.html", api |-> "api.py", socket |-> "socket.py"]

TabKeys == DOMAIN WIZ_FILES

\* the folder of the session and the workspace it is opened in
DocFolder == "/w/p"
TemplateFolder == "/w/c"
DocFsWith(info) ==
  [p \in {"/w", "/w/n.txt", DocFolder, JoinPath(DocFolder, WIZ_FILES.pug),
          TemplateFolder, JoinPath(TemplateFolder, WIZ_FILES.pug),
          JoinPath(TemplateFolder, WIZ_FILES.info)} |->
     CASE p = JoinPath(DocFolder, WIZ_FILES.pug) -> FileEntry("p")
       [] p = JoinPath(TemplateFolder, WIZ_FILES.pug) -> FileEntry("c")
       [] p = JoinPath(TemplateFolder, WIZ_FILES.info) -> FileEntry(info)
       [] p = "/w/n.txt" -> FileEntry("")
       [] OTHER -> DirEntry]

DocFs == DocFsWith("{\"template\":\"t\"}")

\* the app.json files the dragged folder may have when the user drags
InfoTexts ==
  {"{\"template\":\"t\"}", "{\"template\":\"t\\n\"}", "{\"template\":\"t\\n\\n\"}",
   "{\"template\":\"\"}", "{}", "{"}

\* the dropped references a requestTemplate message may hold
RequestMsgs ==
  {[path |-> "/w/c", uri |-> ""], [path |-> " /w/c$0 ", uri |-> ""],
   [path |-> "", uri |-> "file:///w/c"], [path |-> "", uri |-> "/w/n.txt$1"],
   [path |-> "", uri |-> ""], [path |-> "", uri |-> "untitled:x"],
   [path |-> "", uri |-> "http://h/w/c/.wizpage"], [path |-> "", uri |-> "w c:/w/c"]}

\* the tree items a drag may start from, and the places of the editor a drop may hit
DragSources == {TemplateFolder, "/w/n.txt"}
Positions == {0, 1}

\* what the user and other programs may still do in a session: a session in which
\* the user edits and saves, one in which other programs change the files while
\* the user edits and opens tabs, one in which they do while the user saves, one in
\* which the user opens tabs and drops something on the editor, one of drops only, and
\* one in which requestTemplate messages reach the panel
Budgets ==
  {[edits |-> MaxEdits, saves |-> MaxSaves, opens |-> 0, ext |-> 0, drags |-> 0, asks |-> 0],
   [edits |-> MaxEdits - 1, saves |-> 0, opens |-> MaxOpens, ext |-> MaxDiskChanges, drags |-> 0,
    asks |-> 0],
   [edits |-> MaxEdits - 1, saves |-> MaxSaves - 1, opens |-> 0, ext |-> MaxDiskChanges, drags |-> 0,
    asks |-> 0],
   [edits |-> 0, saves |-> 0, opens |-> MaxOpens, ext |-> 0, drags |-> MaxDrags - 1, asks |-> 0],
   [edits |-> 0, saves |-> 0, opens |-> 0, ext |-> 0, drags |-> MaxDrags, asks |-> 0],
   [edits |-> 0, saves |-> 0, opens |-> 0, ext |-> 0, drags |-> 0, asks |-> MaxAsks]}

\* the tabs the user works with, the texts typed and the texts other programs write
DocKeys == {"pug", "ts"}
EditTexts == {"a", "p"}
ExternalTexts == {"x"}

\* WIZ_FILES.find((t) => t.filename === basename)
TabOf(basename) == {k \in TabKeys : WIZ_FILES[k] = basename}

Msg(type, key, text, missing) == [type |-> type, key |-> key, text |-> text, missing |-> missing]

\* baselineByKey[key]: null (never loaded) or a text
Null == [loaded |-> FALSE, text |-> ""]
Loaded(text) == [loaded |-> TRUE, text |-> text]

\* what a key looks like on the surface
KeyState(value, baseline, dirty, model) ==
  [value |-> value, baseline |-> baseline, dirty |-> dirty, model |-> model]

NoLast == [fn |-> "", key |-> "", text |-> "", posted |-> <<>>, synced |-> "",
           before |-> KeyState("", Null, FALSE, FALSE), after |-> KeyState("", Null, FALSE, FALSE)]

\* lastDropPosition: null or a position
NoPos == [set |-> FALSE, pos |-> 0]

\* history only: the template message handled last, and the template request answered last
NoTmpl ==
  [handled |-> FALSE, text |-> "", missing |-> FALSE, at |-> NoPos, cursor |-> 0,
   before |-> <<>>, after |-> <<>>, activeAfter |-> "", atAfter |-> NoPos]
NoAsked == [answered |-> FALSE, gesture |-> "", uris |-> <<>>, text |-> "", missing |-> FALSE]
\* history only: the write that failed last
NoThrown == [happened |-> FALSE, key |-> "", posted |-> <<>>, timers |-> <<>>]
NoResolved == [answered |-> FALSE, path |-> "", uri |-> "", text |-> "", missing |-> FALSE]

\* history only: the watcher notification handled last
NoSeen == [name |-> "", kind |-> "", window |-> FALSE, started |-> FALSE]

\* the session when resolveCustomEditor returns: "init" and "openTab" are on their way
NewSession(budget) ==
  [folder |-> DocFolder,
   \* editing surface
   tabs |-> {}, activeKey |-> "", shown |-> "", models |-> {},
   value |-> [k \in TabKeys |-> ""],
   baselineByKey |-> [k \in TabKeys |-> Null],
   dirtyByKey |-> [k \in TabKeys |-> FALSE],
   ready |-> FALSE, deferred |-> <<>>, dropBound |-> FALSE,
   \* position: the cursor of the editor, which the user leaves at the start
   lastDropPosition |-> NoPos, position |-> 0, dragOver |-> FALSE,
   \* messages in flight
   toWebview |-> <<Msg("init", "", "", FALSE), Msg("openTab", "pug", "", FALSE)>>,
   toExtension |-> <<>>,
   \* panel
   writing |-> {}, jobs |-> <<>>, timers |-> <<>>, events |-> <<>>,
   \* drag controller of the tree, and the drag in progress ("tree", "other" or none)
   lastDraggedUris |-> <<>>, gesture |-> "",
   \* what the user and other programs may still do, and the last notification handled
   \* history only: per key, the text last loaded from its file or last acknowledged as
   \* written to it (for a saved message: the text of the write it acknowledges)
   synced |-> [k \in TabKeys |-> ""],
   left |-> budget, last |-> NoLast, seen |-> NoSeen, tmpl |-> NoTmpl, asked |-> NoAsked,
   resolved |-> NoResolved, thrown |-> NoThrown]

DropAt(q, i) == SubSeq(q, 1, i - 1) \o SubSeq(q, i + 1, Len(q))

post(d, msg) == [d EXCEPT !.toWebview = Append(@, msg)]
postMessage(d, msg) == [d EXCEPT !.toExtension = Append(@, msg)]

\* the listener ensureModel registers on the model of key
onDidChangeContent(d, key) ==
  LET base == d.baselineByKey[key]
      baseText == IF ~base.loaded THEN "" ELSE base.text
  IN  [d EXCEPT !.dirtyByKey[key] = (d.value[key] # baseText)]

setValue(d, key, text) == onDidChangeContent([d EXCEPT !.value[key] = text], key)

ensureModel(d, key) ==
  IF key \in d.models THEN d
  ELSE [d EXCEPT !.models = @ \cup {key}, !.value[key] = ""]

KeyOf(d, key) == KeyState(d.value[key], d.baselineByKey[key], d.dirtyByKey[key], key \in d.models)

\* history only: the key of the handler that ran last, as the handler found it in d and
\* as it left it in e, and the messages it posted to the panel
Handled(d, e, fn, msg) ==
  [e EXCEPT !.synced[msg.key] =
              IF fn = "saved" THEN msg.text
              ELSE IF fn \in {"content", "deleted"} /\ ~d.dirtyByKey[msg.key] THEN e.value[msg.key]
              ELSE @,
            !.last = [fn |-> fn, key |-> msg.key, text |-> msg.text, synced |-> d.synced[msg.key],
                      posted |-> SubSeq(e.toExtension, Len(d.toExtension) + 1, Len(e.toExtension)),
                      before |-> KeyOf(d, msg.key), after |-> KeyOf(e, msg.key)]]

openTabReadAgain(d, key) ==
  postMessage([ensureModel(d, key) EXCEPT !.shown = key], Msg("read", key, "", FALSE))

openTabReady(d, key) ==
  LET d1 == [ensureModel(d, key) EXCEPT !.shown = key]
  IN  IF ~d1.baselineByKey[key].loaded
      THEN postMessage(d1, Msg("read", key, "", FALSE))
      ELSE d1

handleContentOverwrite(d, msg) ==
  LET key == msg.key
      d1 == ensureModel(d, key)
      d2 == setValue(d1, key, msg.text)
  IN  [d2 EXCEPT !.baselineByKey[key] = Loaded(msg.text),
                 !.dirtyByKey[key] = FALSE,
                 !.shown = IF key = d2.activeKey THEN key ELSE @]

handleContentReady(d, msg) ==
  LET key == msg.key
      d1 == ensureModel(d, key)
  IN  IF d1.dirtyByKey[key]
      THEN d1
      ELSE LET d2 == setValue(d1, key, msg.text)
           IN  [d2 EXCEPT !.baselineByKey[key] = Loaded(msg.text),
                          !.dirtyByKey[key] = FALSE,
                          !.shown = IF key = d2.activeKey THEN key ELSE @]

handleSavedReady(d, msg) ==
  LET key == msg.key
  IN  IF key \notin d.models
      THEN d
      ELSE [d EXCEPT !.baselineByKey[key] = Loaded(d.value[key]),
                     !.dirtyByKey[key] = FALSE]

saveKeyReady(d, key) ==
  postMessage(d, Msg("write", key, IF key \in d.models THEN d.value[key] ELSE "", FALSE))

\* the text with ins put in at offset pos (a position past the end is the end)
InsertAt(text, pos, ins) ==
  LET p == Min(pos, Len(text))
  IN  SubSeq(text, 1, p) \o ins \o SubSeq(text, p + 1, Len(text))

EndsWith(s, suffix) ==
  /\ Len(s) >= Len(suffix)
  /\ SubSeq(s, Len(s) - Len(suffix) + 1, Len(s)) = suffix

\* insertAtPosition with the text put in as it came
insertAtPositionAsGiven(d, text, pos) ==
  IF d.shown = "" THEN d
  ELSE setValue(d, d.shown, InsertAt(d.value[d.shown], pos, text))

\* insertAtPosition, the editor being there: the edit goes to the model the editor
\* shows (the model the editor was created with, which belongs to no key, when none
\* was set)
insertAtPosition(d, text, pos) ==
  LET finalText == text \o (IF EndsWith(text, "\n") THEN "" ELSE "\n")
  IN  IF d.shown = "" THEN d
      ELSE setValue(d, d.shown, InsertAt(d.value[d.shown], pos, finalText))

\* handleTemplate: the function given to ensureEditorReady (openTab runs at once here)
handleTemplateReady(d, msg) ==
  IF msg.missing \/ Trim(msg.text) = ""
  THEN [d EXCEPT !.lastDropPosition = NoPos]
  ELSE LET d1 == IF d.activeKey # "pug"
                 THEN openTabReady([d EXCEPT !.activeKey = "pug"], "pug")
                 ELSE d
           pos == IF d1.lastDropPosition.set THEN d1.lastDropPosition.pos ELSE d1.position
       IN  [insertAtPosition(d1, msg.text, pos) EXCEPT !.lastDropPosition = NoPos]

\* history only: what the template message found in d and left in e
Templated(d, e, msg) ==
  [e EXCEPT !.tmpl = [handled |-> TRUE, text |-> msg.text, missing |-> msg.missing,
                      at |-> d.lastDropPosition, cursor |-> d.position,
                      before |-> [k \in TabKeys |-> KeyOf(d, k)],
                      after |-> [k \in TabKeys |-> KeyOf(e, k)],
                      activeAfter |-> e.activeKey, atAfter |-> e.lastDropPosition]]

\* onDropCapture inside the editor: the function given to ensureEditorReady (msg.pos is
\* the position under the pointer, msg.key the kind of drag, kept as history)
onDropReady(d, msg) ==
  postMessage([d EXCEPT !.lastDropPosition = [set |-> TRUE, pos |-> msg.pos]],
              Msg("requestTemplateFromLastDrag", msg.key, "", FALSE))

\* the function handed to ensureEditorReady runs
RunReady(d, th) ==
  CASE th.fn = "openTab" -> Handled(d, openTabReady(d, th.msg.key), "openTab", th.msg)
    [] th.fn = "content" -> Handled(d, handleContentReady(d, th.msg), "content", th.msg)
    [] th.fn = "saved" -> Handled(d, handleSavedReady(d, th.msg), "saved", th.msg)
    [] th.fn = "save" -> saveKeyReady(d, th.msg.key)
    [] th.fn = "init" -> [d EXCEPT !.dropBound = TRUE]
    [] th.fn = "template" -> Templated(d, handleTemplateReady(d, th.msg), th.msg)
    [] th.fn = "drop" -> onDropReady(d, th.msg)

\* tryRun: at once when the editor exists, on a later timer otherwise
ensureEditorReady(d, fn, msg) ==
  IF d.ready
  THEN RunReady(d, [fn |-> fn, msg |-> msg])
  ELSE [d EXCEPT !.deferred = Append(@, [fn |-> fn, msg |-> msg])]

openTab(d, key) ==
  ensureEditorReady([d EXCEPT !.activeKey = key], "openTab", Msg("openTab", key, "", FALSE))

saveKey(d, key) == ensureEditorReady(d, "save", Msg("save", key, "", FALSE))

saveActive(d) == IF d.activeKey = "" THEN d ELSE saveKey(d, d.activeKey)

handleInit(d, msg) ==
  ensureEditorReady([d EXCEPT !.tabs = TabKeys,
                              !.dirtyByKey = [k \in TabKeys |-> FALSE],
                              !.baselineByKey = [k \in TabKeys |-> Null]],
                    "init", msg)

handleContent(d, msg) == ensureEditorReady(d, "content", msg)

handleSaved(d, msg) == ensureEditorReady(d, "saved", msg)

handleDeletedKeepsText(d, msg) ==
  IF msg.key = "" \/ d.dirtyByKey[msg.key] THEN d
  ELSE [d EXCEPT !.baselineByKey[msg.key] = Loaded("")]

handleDeleted(d, msg) ==
  LET key == msg.key
  IN  IF key = "" THEN d
      ELSE IF d.dirtyByKey[key] THEN d
      ELSE LET d1 == [d EXCEPT !.baselineByKey[key] = Loaded("")]
           IN  IF key \in d1.models THEN setValue(d1, key, "") ELSE d1

handleTemplate(d, msg) == ensureEditorReady(d, "template", msg)

\* onDragEnter of bindExternalDrop
onDragEnter(d) == IF d.activeKey # "pug" THEN openTab(d, "pug") ELSE d

\* onDropCapture of bindExternalDrop, the drop being inside the editor
onDropCapture(d, gesture, pos) ==
  ensureEditorReady(d, "drop", [type |-> "drop", key |-> gesture, pos |-> pos])

onMessage(d, msg) ==
  CASE msg.type = "init" -> handleInit(d, msg)
    [] msg.type = "openTab" -> openTab(d, msg.key)
    [] msg.type = "content" -> handleContent(d, msg)
    [] msg.type = "saved" -> handleSaved(d, msg)
    [] msg.type = "deleted" -> Handled(d, handleDeleted(d, msg), "deleted", msg)
    [] msg.type = "template" -> handleTemplate(d, msg)
    [] OTHER -> d

IsDigit(c) == c \in {"0", "1", "2", "3", "4", "5", "6", "7", "8", "9"}

\* t occurs in s
Occurs(s, t) == \E i \in 1..(Len(s) - Len(t) + 1) : SubSeq(s, i, i + Len(t) - 1) = t

RECURSIVE DigitsEnd(_, _)
\* where the digits at the end of s begin (Len(s) when it ends with none)
DigitsEnd(s, end) ==
  IF end > 0 /\ IsDigit(SubSeq(s, end, end)) THEN DigitsEnd(s, end - 1) ELSE end

\* p.replace(/\$\d+$/, "")
stripVsCodeSuffix(p) ==
  LET k == DigitsEnd(p, Len(p))
  IN  IF k < Len(p) /\ k > 0 /\ SubSeq(p, k, k) = "$" THEN SubSeq(p, 1, k - 1) ELSE p

\* readText: the text of the file, or null
readText(f, u) ==
  IF IsFile(f, u) THEN [ok |-> TRUE, text |-> f[u].contents] ELSE [ok |-> FALSE, text |-> ""]

\* JSON.parse of the texts app.json holds in this model; t is json.template
JSONParse(c) ==
  CASE c = "{\"template\":\"t\"}" -> [ok |-> TRUE, has |-> TRUE, t |-> "t"]
    [] c = "{\"template\":\"t\\n\"}" -> [ok |-> TRUE, has |-> TRUE, t |-> "t\n"]
    [] c = "{\"template\":\"t\\n\\n\"}" -> [ok |-> TRUE, has |-> TRUE, t |-> "t\n\n"]
    [] c = "{\"template\":\"\"}" -> [ok |-> TRUE, has |-> TRUE, t |-> ""]
    [] c = "{}" -> [ok |-> TRUE, has |-> FALSE, t |-> ""]
    [] OTHER -> [ok |-> FALSE, has |-> FALSE, t |-> ""]

NoTemplate == [text |-> "", missing |-> TRUE]

\* a faulty getTemplateFromWizFolder that sends the text of app.json as it is
getTemplateFromWizFolderWhole(f, wizFolderUri) ==
  LET r == readText(f, JoinPath(wizFolderUri, "app.json"))
  IN  [text |-> r.text, missing |-> ~r.ok]

getTemplateFromWizFolder(f, wizFolderUri) ==
  LET r == readText(f, JoinPath(wizFolderUri, "app.json"))
      json == JSONParse(r.text)
  IN  IF ~r.ok \/ ~json.ok \/ ~json.has THEN NoTemplate
      ELSE [text |-> json.t, missing |-> FALSE]

\* the answer to requestTemplateFromLastDrag, dragged being what the controller held
TemplateFromLastDrag(f, dragged) ==
  IF dragged = <<>> THEN NoTemplate
  ELSE LET first == dragged[1]
           candidateFolder == IF IsDir(f, first) THEN first ELSE Dirname(first)
       IN  IF ~isWizFolder(f, candidateFolder) THEN NoTemplate
           ELSE getTemplateFromWizFolder(f, candidateFolder)

\* vscode.Uri.file(path).fsPath
UriFile(p) == IF StartsWith(p, "/") THEN p ELSE "/" \o p

\* vscode.Uri.parse of the references a requestTemplate message holds in this model:
\* scheme and path, or the fact that it threw (a scheme with a space in it)
UriParse(raw) ==
  CASE raw = "file:///w/c" -> [threw |-> FALSE, scheme |-> "file", path |-> "/w/c"]
    [] raw = "http://h/w/c/.wizpage" -> [threw |-> FALSE, scheme |-> "http", path |-> "/w/c/.wizpage"]
    [] raw = "untitled:x" -> [threw |-> FALSE, scheme |-> "untitled", path |-> "x"]
    [] raw = "w c:/w/c" -> [threw |-> TRUE, scheme |-> "", path |-> ""]
    [] OTHER -> [threw |-> FALSE, scheme |-> "file", path |-> UriFile(raw)]

NoFolder == [found |-> FALSE, uri |-> ""]
Folder(u) == [found |-> TRUE, uri |-> u]

\* resolveDroppedToWizFolder(msg): msg.path and msg.uri are strings, "" when not given
resolveDroppedToWizFolder(f, path, uri) ==
  LET raw == Trim(uri)
      parsed == UriParse(raw)
      dropped ==
        IF Trim(path) # "" THEN Folder(UriFile(stripVsCodeSuffix(Trim(path))))
        ELSE IF uri = "" THEN NoFolder
        ELSE IF StartsWith(raw, "/") THEN Folder(UriFile(stripVsCodeSuffix(raw)))
        ELSE IF parsed.threw
             THEN IF Occurs(raw, "/") THEN Folder(UriFile(stripVsCodeSuffix(raw))) ELSE NoFolder
        ELSE IF parsed.scheme = "file" THEN Folder(parsed.path)
        ELSE IF parsed.scheme \in {"vscode-file", "vscode-resource", "http", "https"}
             THEN IF StartsWith(parsed.path, "/") THEN Folder(UriFile(stripVsCodeSuffix(parsed.path)))
                  ELSE NoFolder
        ELSE NoFolder
  IN  IF ~dropped.found THEN NoFolder
      ELSE IF Basename(dropped.uri) = ".wizpage" THEN Folder(Dirname(dropped.uri))
      ELSE IF IsDir(f, dropped.uri) THEN dropped
      ELSE Folder(Dirname(dropped.uri))

\* the answer to requestTemplate
TemplateForDropped(f, path, uri) ==
  LET wizFolder == resolveDroppedToWizFolder(f, path, uri)
  IN  IF ~wizFolder.found THEN NoTemplate
      ELSE IF ~isWizFolder(f, wizFolder.uri) THEN NoTemplate
      ELSE getTemplateFromWizFolder(f, wizFolder.uri)

\* webview.onDidReceiveMessage, up to its first await
onDidReceiveMessage(d, msg) ==
  CASE msg.type = "read" /\ msg.key \in TabKeys ->
         [d EXCEPT !.jobs = Append(@, [kind |-> "read", key |-> msg.key, text |-> "", uris |-> <<>>])]
    [] msg.type = "write" /\ msg.key \in TabKeys ->
         [d EXCEPT !.writing = @ \cup {WIZ_FILES[msg.key]},
                   !.jobs = Append(@, [kind |-> "write", key |-> msg.key, text |-> msg.text, uris |-> <<>>])]
    [] msg.type = "requestTemplate" ->
         \* of a requestTemplate message, key holds msg.uri and text holds msg.path
         [d EXCEPT !.jobs = Append(@, [kind |-> "resolve", key |-> msg.key, text |-> msg.text,
                                       uris |-> <<>>])]
    [] msg.type = "requestTemplateFromLastDrag" ->
         \* key is history only: the kind of drag the drop ended
         [d EXCEPT !.jobs = Append(@, [kind |-> "template", key |-> msg.key, text |-> "",
                                       uris |-> d.lastDraggedUris])]
    [] OTHER -> d

\* a write of the file is in progress, or the timer set after one has not fired
InWindow(d, basename) ==
  \/ \E i \in DOMAIN d.jobs : d.jobs[i].kind = "write" /\ WIZ_FILES[d.jobs[i].key] = basename
  \/ \E i \in DOMAIN d.timers : d.timers[i] = basename

\* history only: the notification ev, handled in d with result e
Watched(d, e, ev) ==
  [e EXCEPT !.seen = [name |-> ev.name, kind |-> ev.kind, window |-> InWindow(d, ev.name),
                      started |-> Len(e.jobs) > Len(d.jobs)]]

\* watcher.onDidChange / onDidCreate, up to its first await
onChange(d, basename) ==
  IF basename \in d.writing \/ TabOf(basename) = {}
  THEN d
  ELSE [d EXCEPT !.jobs = Append(@, [kind |-> "change", key |-> CHOOSE k \in TabOf(basename) : TRUE,
                                     text |-> "", uris |-> <<>>])]

\* watcher.onDidDelete
onDidDelete(d, basename) ==
  IF TabOf(basename) = {}
  THEN d
  ELSE post(d, Msg("deleted", CHOOSE k \in TabOf(basename) : TRUE, "", FALSE))

\* the file system tells the watcher of the folder what happened to a file
Notify(d, f, u) ==
  [d EXCEPT !.events = Append(@, [kind |-> IF Exists(f, u) THEN "change" ELSE "create",
                                  name |-> Basename(u)])]

DocFrame == UNCHANGED <<undoStack, redoStack, tasks, hist>>

InitDoc ==
  /\ undoStack = <<>>
  /\ redoStack = <<>>
  /\ tasks = <<>>
  /\ hist = InitHist
  /\ session \in {NewSession(b) : b \in Budgets}
  /\ fs \in {DocFsWith(info) : info \in IF session.left.drags + session.left.asks > 0 THEN InfoTexts ELSE {DocFs[JoinPath(TemplateFolder, WIZ_FILES.info)].contents}}

\* window.__WIZ_EDITOR__ is set
EditorReady ==
  /\ ~session.ready
  /\ session' = [session EXCEPT !.ready = TRUE]
  /\ fs' = fs /\ DocFrame

\* a function that waited for the editor runs on its timer
RunDeferred ==
  /\ session.ready
  /\ \E i \in DOMAIN session.deferred :
       session' = RunReady([session EXCEPT !.deferred = DropAt(@, i)], session.deferred[i])
  /\ fs' = fs /\ DocFrame

\* window "message" event
Deliver ==
  /\ session.toWebview # <<>>
  /\ session' = onMessage([session EXCEPT !.toWebview = Tail(@)], Head(session.toWebview))
  /\ fs' = fs /\ DocFrame

\* the user clicks a tab
ClickTab ==
  /\ session.left.opens > 0
  /\ \E key \in DocKeys \cap session.tabs :
       session' = openTab([session EXCEPT !.left.opens = @ - 1], key)
  /\ fs' = fs /\ DocFrame

\* the user types in the editor
Edit ==
  /\ session.left.edits > 0
  /\ session.shown # ""
  /\ \E text \in EditTexts \ {session.value[session.shown]} :
       session' = setValue([session EXCEPT !.left.edits = @ - 1], session.shown, text)
  /\ fs' = fs /\ DocFrame

\* the user presses Ctrl+S
Save ==
  /\ session.left.saves > 0
  /\ session.activeKey # ""
  /\ session' = saveActive([session EXCEPT !.left.saves = @ - 1])
  /\ fs' = fs /\ DocFrame

\* the panel receives a message of the surface
Receive ==
  /\ session.toExtension # <<>>
  /\ session' = onDidReceiveMessage([session EXCEPT !.toExtension = Tail(@)], Head(session.toExtension))
  /\ fs' = fs /\ DocFrame

\* the read of a "read" message returns
ReadDone ==
  /\ \E i \in DOMAIN session.jobs :
       LET job == session.jobs[i]
           r == readText(fs, JoinPath(session.folder, WIZ_FILES[job.key]))
       IN  /\ job.kind = "read"
           /\ session' = post([session EXCEPT !.jobs = DropAt(@, i)],
                              Msg("content", job.key, r.text, ~r.ok))
  /\ fs' = fs /\ DocFrame

\* the read of a watcher notification returns
ChangeDone ==
  /\ \E i \in DOMAIN session.jobs :
       LET job == session.jobs[i]
           r == readText(fs, JoinPath(session.folder, WIZ_FILES[job.key]))
           d == [session EXCEPT !.jobs = DropAt(@, i)]
       IN  /\ job.kind = "change"
           /\ session' = IF r.ok THEN post(d, Msg("content", job.key, r.text, FALSE)) ELSE d
  /\ fs' = fs /\ DocFrame

\* history only: the write of job i of d threw, the handler left e
Threw(d, e, i) ==
  [e EXCEPT !.thrown = [happened |-> TRUE, key |-> d.jobs[i].key,
                        posted |-> SubSeq(e.toWebview, Len(d.toWebview) + 1, Len(e.toWebview)),
                        timers |-> SubSeq(e.timers, Len(d.timers) + 1, Len(e.timers))]]

\* a faulty end of a write that threw: no timer is set
writeThrewNoTimer(d, i) == [d EXCEPT !.jobs = DropAt(@, i)]

\* writeText of job i threw: the finally block sets the timer, "saved" is not posted
writeThrew(d, i) ==
  [d EXCEPT !.jobs = DropAt(@, i), !.timers = Append(@, WIZ_FILES[d.jobs[i].key])]

\* the write of a "write" message returns; the timer of the finally block is set
\* (the text field of "saved" is history only: the message carries key and filename)
WriteDone ==
  /\ \E i \in DOMAIN session.jobs :
       LET job == session.jobs[i]
           u == JoinPath(session.folder, WIZ_FILES[job.key])
           r == FsWriteFile(fs, u, job.text)
           d == [session EXCEPT !.jobs = DropAt(@, i), !.timers = Append(@, WIZ_FILES[job.key])]
       IN  /\ job.kind = "write"
           /\ fs' = r.fs
           /\ session' = IF r.ok
                         THEN Notify(post(d, Msg("saved", job.key, job.text, FALSE)), fs, u)
                         ELSE Threw(session, writeThrew(session, i), i)
  /\ DocFrame

\* the write of a "write" message throws: the file service fails (no space left, no
\* permission), which counts as a change made from outside
WriteThrows ==
  /\ session.left.ext > 0
  /\ \E i \in DOMAIN session.jobs :
       /\ session.jobs[i].kind = "write"
       /\ session' = Threw(session, writeThrew([session EXCEPT !.left.ext = @ - 1], i), i)
  /\ fs' = fs /\ DocFrame

\* the reads of a template request return
TemplateDone ==
  /\ \E i \in DOMAIN session.jobs :
       LET job == session.jobs[i]
           r == TemplateFromLastDrag(fs, job.uris)
           d == [session EXCEPT !.jobs = DropAt(@, i),
                                !.asked = [answered |-> TRUE, gesture |-> job.key, uris |-> job.uris,
                                           text |-> r.text, missing |-> r.missing]]
       IN  /\ job.kind = "template"
           /\ session' = post(d, Msg("template", "", r.text, r.missing))
  /\ fs' = fs /\ DocFrame

\* the reads of a requestTemplate message return
ResolveDone ==
  /\ \E i \in DOMAIN session.jobs :
       LET job == session.jobs[i]
           r == TemplateForDropped(fs, job.text, job.key)
           d == [session EXCEPT !.jobs = DropAt(@, i),
                                !.resolved = [answered |-> TRUE, path |-> job.text, uri |-> job.key,
                                              text |-> r.text, missing |-> r.missing]]
       IN  /\ job.kind = "resolve"
           /\ session' = post(d, Msg("template", "", r.text, r.missing))
  /\ fs' = fs /\ DocFrame

\* a requestTemplate message with a dropped reference reaches the panel (the surface
\* of this repository posts requestTemplateFromLastDrag only; the panel answers both)
RequestTemplate ==
  /\ session.left.asks > 0
  /\ \E m \in RequestMsgs :
       session' = postMessage([session EXCEPT !.left.asks = @ - 1],
                              Msg("requestTemplate", m.uri, m.path, FALSE))
  /\ fs' = fs /\ DocFrame

\* SeasonExplorerDnD.handleDrag: the user starts dragging an item of the tree
TreeDrag ==
  /\ session.left.drags > 0
  /\ session.gesture = ""
  /\ \E u \in DragSources :
       session' = [session EXCEPT !.left.drags = @ - 1, !.lastDraggedUris = <<u>>,
                                  !.gesture = "tree"]
  /\ fs' = fs /\ DocFrame

\* the user starts dragging something that is not an item of the tree
OtherDrag ==
  /\ session.left.drags > 0
  /\ session.gesture = ""
  /\ session' = [session EXCEPT !.left.drags = @ - 1, !.gesture = "other"]
  /\ fs' = fs /\ DocFrame

\* window "dragenter" event
DragEnter ==
  /\ session.gesture # ""
  /\ session.dropBound
  /\ ~session.dragOver
  /\ session' = onDragEnter([session EXCEPT !.dragOver = TRUE])
  /\ fs' = fs /\ DocFrame

\* window "drop" event inside the editor, where the pointer is at some position
DropOnEditor ==
  /\ session.dragOver
  /\ \E pos \in Positions :
       session' = onDropCapture([session EXCEPT !.dragOver = FALSE, !.gesture = ""],
                                session.gesture, pos)
  /\ fs' = fs /\ DocFrame

\* the drag ends without a drop on the editor
DragEnd ==
  /\ session.gesture # ""
  /\ session' = [session EXCEPT !.dragOver = FALSE, !.gesture = ""]
  /\ fs' = fs /\ DocFrame

\* setTimeout(() => writing.delete(tab.filename), 150) fires
TimerFire ==
  /\ session.timers # <<>>
  /\ session' = [session EXCEPT !.timers = Tail(@), !.writing = @ \ {Head(session.timers)}]
  /\ fs' = fs /\ DocFrame

\* the watcher of the folder fires
WatcherFire ==
  /\ session.events # <<>>
  /\ LET ev == Head(session.events)
         d == [session EXCEPT !.events = Tail(@)]
     IN  session' = Watched(d, IF ev.kind = "delete" THEN onDidDelete(d, ev.name)
                                                          ELSE onChange(d, ev.name), ev)
  /\ fs' = fs /\ DocFrame

\* another program writes a file of the folder
DiskWrite ==
  /\ session.left.ext > 0
  /\ \E key \in DocKeys, text \in ExternalTexts :
       LET u == JoinPath(session.folder, WIZ_FILES[key])
       IN  /\ fs' = Put(fs, u, FileEntry(text))
           /\ session' = Notify([session EXCEPT !.left.ext = @ - 1], fs, u)
  /\ DocFrame

\* another program removes a file of the folder
DiskRemove ==
  /\ session.left.ext > 0
  /\ \E key \in DocKeys :
       LET u == JoinPath(session.folder, WIZ_FILES[key])
       IN  /\ IsFile(fs, u)
           /\ fs' = Remove(fs, {u})
           /\ session' = [session EXCEPT !.left.ext = @ - 1,
                                         !.events = Append(@, [kind |-> "delete", name |-> Basename(u)])]
  /\ DocFrame

NextDoc ==
  \/ EditorReady \/ RunDeferred \/ Deliver \/ ClickTab \/ Edit \/ Save
  \/ Receive \/ ReadDone \/ ChangeDone \/ WriteDone \/ TimerFire \/ WatcherFire
  \/ DiskWrite \/ DiskRemove \/ WriteThrows
  \/ TemplateDone \/ ResolveDone \/ RequestTemplate
  \/ TreeDrag \/ OtherDrag \/ DragEnter \/ DropOnEditor \/ DragEnd

SpecDoc == InitDoc /\ [][NextDoc]_vars

----------------------------------------------------------------------------
(* Properties.  hist.done is the handler that finished last, with what it   *)
(* found (undoBefore, redoBefore, fsBefore), what it did (succ, attempted,  *)
(* pushed) and how it ended (failed, delegated, notices).                   *)

LastDone == hist.done
Top(q) == q[Len(q)]
ButTop(q) == SubSeq(q, 1, Len(q) - 1)

\* C1: with one command at a time, each run to its end, and no other change of the
\* workspace, the filesystem always equals the state it had when the undo stack last
\* held as many records as it holds now: N undos after N recorded operations give the
\* state before them, and N redos after that give the state after them.
C1_UndoRedoRoundTrip ==
  ~hist.hung =>
    /\ Len(hist.trail) = Len(undoStack) + Len(redoStack) + 1
    /\ fs = hist.trail[Len(undoStack) + 1]

\* two recorded operations, undone and redone
C1_Witness ==
  /\ LastDone.cmd = "redo"
  /\ ~LastDone.delegated
  /\ Len(undoStack) = 2
  /\ redoStack = <<>>
  /\ hist.trail[1] # hist.trail[2]
  /\ hist.trail[2] # hist.trail[3]

\* C2: a recording command pushes at most one record; when it pushes, the
\* undo stack is the one it found plus that record on top and the redo stack
\* is empty, otherwise both stacks are as it found them; and the redo stack
\* is non-empty only if no record was pushed since the last undo.
C2_PushClearsRedo ==
  /\ LastDone.cmd \in RecordingCmds =>
       /\ Len(LastDone.pushed) <= 1
       /\ IF LastDone.pushed # <<>>
          THEN /\ undoStack = Append(LastDone.undoBefore, LastDone.pushed[1])
               /\ redoStack = <<>>
          ELSE /\ undoStack = LastDone.undoBefore
               /\ redoStack = LastDone.redoBefore
  /\ redoStack # <<>> => hist.nextId = hist.undoAt

\* a record pushed while the redo stack held a record
C2_Witness ==
  /\ LastDone.cmd \in RecordingCmds
  /\ LastDone.pushed # <<>>
  /\ LastDone.redoBefore # <<>>

\* C3: an undo that found records moves the top record of the undo stack to
\* the top of the redo stack, a redo does the converse, and with an empty
\* stack the command delegates and leaves both stacks as they were.
C3_UndoMovesTopRecord ==
  /\ LastDone.cmd = "undo" =>
       IF LastDone.undoBefore = <<>>
       THEN /\ LastDone.delegated
            /\ undoStack = LastDone.undoBefore
            /\ redoStack = LastDone.redoBefore
       ELSE /\ undoStack = ButTop(LastDone.undoBefore)
            /\ redoStack = Append(LastDone.redoBefore, Top(LastDone.undoBefore))
  /\ LastDone.cmd = "redo" =>
       IF LastDone.redoBefore = <<>>
       THEN /\ LastDone.delegated
            /\ undoStack = LastDone.undoBefore
            /\ redoStack = LastDone.redoBefore
       ELSE /\ redoStack = ButTop(LastDone.redoBefore)
            /\ undoStack = Append(LastDone.undoBefore, Top(LastDone.redoBefore))

Untag(calls) == [k \in DOMAIN calls |-> [calls[k] EXCEPT !.inner = 0]]

RECURSIVE StandaloneUndo(_, _)
\* the inverses of the inner operations, each as for a record on its own,
\* from the last inner operation to the first
StandaloneUndo(ops, i) ==
  IF i = 0 THEN <<>> ELSE UndoCalls(ops[i]) \o StandaloneUndo(ops, i - 1)

RECURSIVE StandaloneRedo(_, _)
\* the forward actions of the inner operations, each as for a record on its
\* own, from the first inner operation to the last
StandaloneRedo(ops, i) ==
  IF i > Len(ops) THEN <<>> ELSE RedoCalls(ops[i]) \o StandaloneRedo(ops, i + 1)

\* one record of each kind a batch may hold
InnerSamples ==
  {[type |-> "rename", from |-> "/w/a/x.txt", to |-> "/w/x.txt"],
   [type |-> "createFile", uri |-> "/w/n.txt", contents |-> "new"],
   [type |-> "deleteFile", uri |-> "/w/a/x.txt", contents |-> "one"],
   [type |-> "mkdir", uri |-> "/w/d"],
   [type |-> "rmdir", uri |-> "/w/a", snapshot |-> snapshotDir(InitialFs, "/w/a").snap]}

\* C4: the calls an undo of a batch makes are the inverses of its inner
\* operations from the last to the first, the calls a redo of a batch makes
\* are their forward actions from the first to the last, and for each kind of
\* inner operation the calls are those made for a record of that kind alone.
C4_BatchOrder ==
  /\ (LastDone.cmd = "undo" /\ LastDone.op.type = "batch" /\ ~LastDone.failed) =>
       Untag(LastDone.attempted) = StandaloneUndo(LastDone.op.ops, Len(LastDone.op.ops))
  /\ (LastDone.cmd = "redo" /\ LastDone.op.type = "batch" /\ ~LastDone.failed) =>
       Untag(LastDone.attempted) = StandaloneRedo(LastDone.op.ops, 1)
  /\ \A inner \in InnerSamples :
       /\ Untag(UndoInner(inner, 1)) = UndoCalls(inner)
       /\ Untag(RedoInner(inner, 1)) = RedoCalls(inner)

\* a batch of a folder and its files was undone, call by call
C4_Witness ==
  /\ LastDone.cmd = "undo"
  /\ LastDone.op.type = "batch"
  /\ Len(LastDone.op.ops) > 2
  /\ Len(LastDone.attempted) = Len(LastDone.op.ops)
  /\ ~LastDone.failed

\* C5: an undo or a redo leaves the number of records held by the two stacks
\* together as it found it.
C5_RecordsConserved ==
  LastDone.cmd \in {"undo", "redo"} =>
    Len(undoStack) + Len(redoStack) = Len(LastDone.undoBefore) + Len(LastDone.redoBefore)

\* C6: an undo or a redo of a batch attempts every call of the batch.
C6_BatchBestEffort ==
  (LastDone.cmd \in {"undo", "redo"} /\ LastDone.op.type = "batch") =>
    Len(LastDone.attempted) = Len(LastDone.planned)

\* what a successful call did to the disk
EffectOfCall(c) ==
  [kind |-> CASE c.fn \in {"editCreateFile", "writeFile"} -> "createFile"
              [] c.fn = "createDirectory" -> "mkdir"
              [] c.fn \in {"editRenameFile", "rename"} -> "rename"
              [] c.fn = "editDeleteFile" -> "deleteFile"
              [] c.fn = "delete" -> "rmdir",
   uri |-> c.uri, to |-> c.to]

\* what a record says was done to the disk
EffectOfRecord(op) ==
  IF op.type = "rename" THEN [kind |-> "rename", uri |-> op.from, to |-> op.to]
  ELSE [kind |-> op.type, uri |-> op.uri, to |-> ""]

EffectsOf(op) ==
  IF op.type = "batch" THEN [k \in DOMAIN op.ops |-> EffectOfRecord(op.ops[k])]
  ELSE <<EffectOfRecord(op)>>

\* C7: the record a recording command pushes describes exactly the calls of
\* the command that succeeded; a command none of whose calls succeeded, and a
\* create, delete, rename, mkdir or rmdir whose call failed, pushes nothing
\* and leaves both stacks untouched.
C7_RecordOnlyAfterSuccess ==
  LastDone.cmd \in RecordingCmds =>
    /\ LastDone.pushed # <<>> =>
         EffectsOf(LastDone.pushed[1]) =
           [k \in DOMAIN LastDone.succ |-> EffectOfCall(LastDone.succ[k])]
    /\ (LastDone.succ = <<>> \/ (LastDone.failed /\ LastDone.cmd # "drop")) =>
         (LastDone.pushed = <<>> /\ ~LastDone.touched)

\* a create whose edit was refused because another handler had created the
\* file meanwhile
C7_Witness ==
  /\ LastDone.cmd = "newFile"
  /\ LastDone.failed
  /\ LastDone.succ = <<>>
  /\ LastDone.uri \in DOMAIN fs
  /\ LastDone.uri \notin DOMAIN LastDone.fsBefore

\* C8: when a handler pushes its record, no other handler's call has changed
\* the disk since the handler's own first call did.
C8_RecordsInMutationOrder ==
  LastDone.pushed # <<>> => ~LastDone.crossed

\* C9: the record an undo puts on the redo stack lies above no record that
\* the undo found below it on the undo stack: records reach the redo stack in
\* the reverse of the order they had on the undo stack.
C9_RedoInReverseOrder ==
  LastDone.cmd = "undo" =>
    \A j, k \in DOMAIN hist.redoIds :
      (j < k /\ hist.redoIds[k] = LastDone.opId) =>
        \A i \in DOMAIN LastDone.undoIdsBefore : LastDone.undoIdsBefore[i] # hist.redoIds[j]

\* C10: a drop that moved something pushes one batch whose inner operations
\* are the renames that succeeded, in the order they were made, and a drop
\* that moved nothing pushes no record; after the undo of such a batch every
\* moved item is back at its old path and gone from its new one.
C10_DropBatch ==
  /\ LastDone.cmd = "drop" =>
       IF LastDone.succ # <<>>
       THEN /\ LastDone.pushed =
                 <<[type |-> "batch",
                    ops |-> [k \in DOMAIN LastDone.succ |->
                               [type |-> "rename", from |-> LastDone.succ[k].uri,
                                to |-> LastDone.succ[k].to]]]>>
            /\ undoStack = Append(LastDone.undoBefore, LastDone.pushed[1])
       ELSE LastDone.pushed = <<>>
  /\ (/\ LastDone.cmd = "undo"
      /\ LastDone.op.type = "batch"
      /\ \A k \in DOMAIN LastDone.op.ops : LastDone.op.ops[k].type = "rename") =>
       \A k \in DOMAIN LastDone.op.ops :
         /\ LastDone.op.ops[k].from \in DOMAIN fs
         /\ LastDone.op.ops[k].to \notin DOMAIN fs
         /\ fs[LastDone.op.ops[k].from] = LastDone.fsBefore[LastDone.op.ops[k].to]

\* a drop of two items of which one was moved and one could not be
C10_Witness ==
  /\ LastDone.cmd = "drop"
  /\ LastDone.failed
  /\ Len(LastDone.pushed) = 1
  /\ Len(LastDone.dragged) = 2

\* the sources of a drop that handleDrop tries to move: not already in the
\* destination directory and not Wiz folders
Movable(t) ==
  {k \in DOMAIN t.dragged :
     /\ Dirname(t.dragged[k]) # t.destDir
     /\ ~isWizFolder(t.fsBefore, t.dragged[k])}

\* the drop was not rejected for its target
Accepted(t) ==
  /\ t.dragged # <<>>
  /\ t.destDir # ""
  /\ ~isWizFolder(t.fsBefore, t.destDir)

\* C11: the renames a drop performed have pairwise distinct destinations and
\* none of them replaced an existing entry; two movable sources of the same
\* name dropped together are both moved, to two different names in the
\* destination directory; and the undo of such a batch puts both back.
C11_DropNoCollision ==
  /\ LastDone.cmd = "drop" =>
       /\ \A j, k \in DOMAIN LastDone.succ :
            j # k => LastDone.succ[j].to # LastDone.succ[k].to
       /\ ~LastDone.clobbered
       /\ \A k \in DOMAIN LastDone.succ :
            LastDone.succ[k].to \notin DOMAIN LastDone.fsBefore
       /\ (/\ Accepted(LastDone)
           /\ Len(LastDone.dragged) = 2
           /\ Movable(LastDone) = {1, 2}
           /\ Basename(LastDone.dragged[1]) = Basename(LastDone.dragged[2])) =>
            /\ Len(LastDone.succ) = 2
            /\ \A k \in {1, 2} :
                 /\ LastDone.succ[k].uri = LastDone.dragged[k]
                 /\ Dirname(LastDone.succ[k].to) = LastDone.destDir
                 /\ LastDone.succ[k].to \in DOMAIN fs
                 /\ LastDone.dragged[k] \notin DOMAIN fs
            /\ LastDone.succ[1].to # LastDone.succ[2].to
  /\ (/\ LastDone.cmd = "undo"
      /\ LastDone.op.type = "batch"
      /\ Len(LastDone.op.ops) = 2
      /\ \A k \in {1, 2} : LastDone.op.ops[k].type = "rename"
      /\ Basename(LastDone.op.ops[1].from) = Basename(LastDone.op.ops[2].from)) =>
       /\ fs = hist.trail[Len(undoStack) + 1]
       /\ \A k \in {1, 2} :
            /\ LastDone.op.ops[k].from \in DOMAIN fs
            /\ LastDone.op.ops[k].to \notin DOMAIN fs

\* two files of the same name dropped on the workspace folder
C11_Witness ==
  /\ LastDone.cmd = "drop"
  /\ LastDone.dragged = <<"/w/a/x.txt", "/w/b/x.txt">>
  /\ Len(LastDone.succ) = 2
  /\ LastDone.succ[1].to = "/w/x.txt"
  /\ LastDone.succ[2].to = "/w/x (1).txt"
  /\ fs["/w/x.txt"].contents = "one"
  /\ fs["/w/x (1).txt"].contents = "two"

\* C12: a drop in which a rename failed shows the error and still moves every
\* movable source that follows the failed one in the dragged list.
C12_DropContinuesAfterFailure ==
  (LastDone.cmd = "drop" /\ LastDone.failed) =>
    /\ \E n \in DOMAIN LastDone.notices : LastDone.notices[n].kind = "error"
    /\ \A k \in Movable(LastDone) :
         k > LastDone.i =>
           \E j \in DOMAIN LastDone.succ : LastDone.succ[j].uri = LastDone.dragged[k]

\* the destination directory a drop target stands for
ResolvedDest(t) ==
  IF t.target.kind = "none"
  THEN (IF t.dragged = <<>> THEN Root ELSE getWorkspaceFolder(t.dragged[1]))
  ELSE IF t.target.kind \in {"workspace", "folder"} THEN t.target.uri
  ELSE Dirname(t.target.uri)

\* the drop target is one of the three rejected ones
RejectedTarget(t) ==
  \/ t.target.kind \in {"wizFolder", "modeGroup"}
  \/ isWizFolder(t.fsBefore, ResolvedDest(t))

\* C13: a drop on a Wiz-folder node, on a mode group, or into a directory
\* that is a Wiz folder makes no rename and leaves the disk as it was; and a
\* drop that completed no rename leaves both stacks as it found them.
C13_RejectedDropChangesNothing ==
  LastDone.cmd = "drop" =>
    /\ RejectedTarget(LastDone) =>
         /\ LastDone.succ = <<>>
         /\ LastDone.movedPairs = <<>>
         /\ fs = LastDone.fsBefore
    /\ LastDone.succ = <<>> =>
         /\ undoStack = LastDone.undoBefore
         /\ redoStack = LastDone.redoBefore
         /\ LastDone.pushed = <<>>
         /\ ~LastDone.touched

\* a drop on the workspace folder, which is a Wiz folder, while the undo
\* stack holds a record
C13_Witness ==
  /\ LastDone.cmd = "drop"
  /\ LastDone.target.kind = "workspace"
  /\ isWizFolder(LastDone.fsBefore, ResolvedDest(LastDone))
  /\ LastDone.succ = <<>>
  /\ undoStack # <<>>

\* C14: a drop of a non-empty payload on one of the three rejected targets
\* has shown a notice when it returns.
C14_RejectedDropShowsNotice ==
  (LastDone.cmd = "drop" /\ LastDone.dragged # <<>> /\ RejectedTarget(LastDone)) =>
    LastDone.notices # <<>>

\* the sources of a drop that handleDrop passes over: already in the
\* destination directory (silently), or Wiz folders (with a notice)
SameParent(t) == {k \in DOMAIN t.dragged : Dirname(t.dragged[k]) = t.destDir}
WizSources(t) ==
  {k \in DOMAIN t.dragged \ SameParent(t) : isWizFolder(t.fsBefore, t.dragged[k])}

WizNotices(t) ==
  {n \in DOMAIN t.notices : t.notices[n].kind = "info" /\ t.notices[n].arg = "wizSource"}

\* C15: in a drop that was not rejected, a source that is a Wiz folder or lies
\* in the destination directory already stays where it was, untouched, and is
\* in no rename and in no record; the notices shown for sources are one per
\* Wiz-folder source and none for the others; and unless a rename failed,
\* every other source has been moved.
C15_SkippedSources ==
  (LastDone.cmd = "drop" /\ Accepted(LastDone)) =>
    /\ \A k \in SameParent(LastDone) \cup WizSources(LastDone) :
         /\ \A q \in Subtree(LastDone.fsBefore, LastDone.dragged[k]) :
              q \in DOMAIN fs /\ fs[q] = LastDone.fsBefore[q]
         /\ \A j \in DOMAIN LastDone.succ : LastDone.succ[j].uri # LastDone.dragged[k]
         /\ \A n \in DOMAIN LastDone.pushed : \A j \in DOMAIN LastDone.pushed[n].ops :
              LastDone.pushed[n].ops[j].from # LastDone.dragged[k]
    /\ ~LastDone.failed =>
         /\ Cardinality(WizNotices(LastDone)) = Cardinality(WizSources(LastDone))
         /\ \A k \in Movable(LastDone) :
              \E j \in DOMAIN LastDone.succ : LastDone.succ[j].uri = LastDone.dragged[k]
    /\ Cardinality(WizNotices(LastDone)) <= Cardinality(WizSources(LastDone))
    /\ (WizSources(LastDone) = {} /\ Movable(LastDone) = {}) => LastDone.notices = <<>>

\* a Wiz folder and a file dropped together on another folder: the Wiz folder
\* stays with a notice, the file is moved
C15_Witness ==
  /\ LastDone.cmd = "drop"
  /\ LastDone.dragged = <<"/w/page.n", "/w/a/x.txt">>
  /\ LastDone.destDir = "/w/b"
  /\ Cardinality(WizNotices(LastDone)) = 1
  /\ Len(LastDone.succ) = 1
  /\ "/w/page.n" \in DOMAIN fs

RECURSIVE Relocate(_, _, _)
\* where the entry that was at path p is after the renames moves[j..]
Relocate(p, moves, j) ==
  IF j > Len(moves) THEN p
  ELSE IF p = moves[j].uri \/ IsUnder(p, moves[j].uri)
  THEN Relocate(moves[j].to \o SubSeq(p, Len(moves[j].uri) + 1, Len(p)), moves, j + 1)
  ELSE Relocate(p, moves, j + 1)

WizFoldersOf(f) == {d \in DOMAIN f : isWizFolder(f, d)}

\* C16: after a drop, every entry that lay inside a Wiz folder still lies
\* inside that folder (wherever the folder is now), and every entry that lay
\* outside every Wiz folder lies inside none.
C16_DropKeepsDocuments ==
  LastDone.cmd = "drop" =>
    \A p \in DOMAIN LastDone.fsBefore :
      /\ \A d \in WizFoldersOf(LastDone.fsBefore) :
           IsUnder(p, d) =>
             IsUnder(Relocate(p, LastDone.succ, 1), Relocate(d, LastDone.succ, 1))
      /\ (\A d \in WizFoldersOf(LastDone.fsBefore) : ~IsUnder(p, d)) =>
           \A d \in WizFoldersOf(fs) : ~IsUnder(Relocate(p, LastDone.succ, 1), d)

\* the i-th alternative for a name: "<base> (<i>)<ext>"
Numbered(name, i) ==
  splitName(name).base \o " (" \o ToString(i) \o ")" \o splitName(name).ext

\* C17: the resolver returns the desired name in the directory when it is
\* free; otherwise the numbered alternative with the smallest number from 1
\* that is free.  The path returned is free.  A name without extension is
\* numbered at its end.  With "a.txt" taken the answer for "a.txt" is
\* "a (1).txt", with "a (1).txt" taken too it is "a (2).txt".
C17_PickSmallestFree ==
  /\ splitName("hello.txt") = [base |-> "hello", ext |-> ".txt"]
  /\ splitName("Makefile") = [base |-> "Makefile", ext |-> ""]
  /\ hist.desired # "" =>
       LET f == hist.before
           name == hist.desired
           uri == hist.result.uri
           free(n) == ~Exists(f, JoinPath(PickDir, n))
       IN  /\ hist.result.ok
           /\ ~Exists(f, uri)
           /\ Dirname(uri) = PickDir
           /\ free(name) => uri = JoinPath(PickDir, name)
           /\ ~free(name) =>
                \E i \in 1..Cardinality(DOMAIN f) :
                  /\ uri = JoinPath(PickDir, Numbered(name, i))
                  /\ \A j \in 1..(i - 1) : ~free(Numbered(name, j))
           /\ (name = "a.txt" /\ ~free("a.txt") /\ free("a (1).txt")) => uri = "/d/a (1).txt"
           /\ (name = "a.txt" /\ ~free("a.txt") /\ ~free("a (1).txt") /\ free("a (2).txt")) =>
                uri = "/d/a (2).txt"
           /\ (name = "a" /\ ~free("a") /\ free("a (1)")) => uri = "/d/a (1)"

\* "a.txt" and "a (1).txt" are taken and "a.txt" is asked for
C17_Witness ==
  /\ hist.desired = "a.txt"
  /\ {"/d/a.txt", "/d/a (1).txt"} \subseteq DOMAIN hist.before
  /\ "/d/a (2).txt" \notin DOMAIN hist.before
  /\ hist.result = [ok |-> TRUE, uri |-> "/d/a (2).txt"]

\* C18: a snapshot of a tree, restored into the directory after the
\* directory was removed or emptied, gives back the tree: the same
\* directories, the empty ones too, the same files with the same contents,
\* and nothing more.
C18_SnapshotRestoreRoundTrip ==
  /\ hist.phase = "taken" => hist.ok
  /\ hist.phase = "restored" =>
       /\ hist.ok
       /\ DOMAIN fs = DOMAIN hist.before
       /\ \A p \in DOMAIN fs : fs[p] = hist.before[p]

\* a tree with an empty directory, a nested directory and files was restored
\* after the directory had been removed or emptied
C18_Witness ==
  /\ hist.phase = "restored"
  /\ DOMAIN fs = {SnapRoot} \cup SnapDirs \cup SnapFiles
  /\ fs["/t/d/e/h"].contents = "h"
  /\ fs["/t/f"].contents = ""

\* what a snapshot of directory d of filesystem f has to hold
DirsBelow(f, d) == {""} \cup {relPath(d, p) : p \in {q \in Subtree(f, d) \ {d} : IsDir(f, q)}}
FilesBelow(f, d) ==
  {[rel |-> relPath(d, p), contents |-> f[p].contents] : p \in {q \in Subtree(f, d) : IsFile(f, q)}}
Range(q) == {q[k] : k \in DOMAIN q}

\* C19: wiz.delete on a directory.  When the snapshot cannot be taken, the
\* disk and both stacks stay as they were.  Otherwise the directory is gone
\* with all it held, nothing else changed, and the one record pushed is an
\* rmdir record whose snapshot lists every directory and every file the
\* directory held, each once, with the contents they had.  The undo of an
\* rmdir record gives the directory back as it was before the delete.
C19_DeleteDirSnapshotFirst ==
  /\ (LastDone.cmd = "delete" /\ IsDir(LastDone.fsBefore, LastDone.uri)) =>
       IF LastDone.unreadable
       THEN /\ fs = LastDone.fsBefore
            /\ LastDone.succ = <<>>
            /\ LastDone.pushed = <<>>
            /\ undoStack = LastDone.undoBefore
            /\ redoStack = LastDone.redoBefore
       ELSE /\ fs = Remove(LastDone.fsBefore, Subtree(LastDone.fsBefore, LastDone.uri))
            /\ Len(LastDone.pushed) = 1
            /\ undoStack = Append(LastDone.undoBefore, LastDone.pushed[1])
            /\ LastDone.pushed[1].type = "rmdir"
            /\ LastDone.pushed[1].uri = LastDone.uri
            /\ LET snap == LastDone.pushed[1].snapshot
               IN  /\ Range(snap.dirs) = DirsBelow(LastDone.fsBefore, LastDone.uri)
                   /\ Range(snap.files) = FilesBelow(LastDone.fsBefore, LastDone.uri)
                   /\ Len(snap.dirs) = Cardinality(Range(snap.dirs))
                   /\ Len(snap.files) = Cardinality(Range(snap.files))
  /\ (LastDone.cmd = "undo" /\ LastDone.op.type = "rmdir") =>
       LET before == hist.trail[Len(undoStack) + 1]
       IN  /\ ~LastDone.failed
           /\ Subtree(fs, LastDone.op.uri) = Subtree(before, LastDone.op.uri)
           /\ \A p \in Subtree(fs, LastDone.op.uri) : fs[p] = before[p]
           /\ LastDone.op.uri \in DOMAIN fs
           /\ LastDone.op.uri \notin DOMAIN LastDone.fsBefore

\* a folder with a file in it was deleted and the delete was undone
C19_Witness ==
  /\ LastDone.cmd = "undo"
  /\ LastDone.op.type = "rmdir"
  /\ LastDone.op.uri = "/w/a"
  /\ Len(LastDone.op.snapshot.files) = 1
  /\ "/w/a/x.txt" \in DOMAIN fs
  /\ fs["/w/a/x.txt"].contents = "one"

\* C20: a content or deleted message for a dirty key changes neither the
\* buffer, nor the baseline, nor the dirty flag of the key; for a key that is
\* not dirty a content message sets buffer and baseline to the incoming text, a
\* deleted message sets both to the empty text, and the key stays not dirty
C20_IncomingAppliedUnlessDirty ==
  LET l == session.last
      incoming == IF l.fn = "content" THEN l.text ELSE ""
  IN  l.fn \in {"content", "deleted"} =>
        IF l.before.dirty
        THEN /\ l.after.value = l.before.value
             /\ l.after.baseline = l.before.baseline
             /\ l.after.dirty
        ELSE /\ l.after.value = incoming
             /\ l.after.baseline = Loaded(incoming)
             /\ ~l.after.dirty

\* a content message was dropped for a key with unsaved edits, after the
\* file of the key was changed by another program
C20_Witness ==
  /\ session.last.fn = "content"
  /\ session.last.before.dirty
  /\ session.last.before.value # session.last.text
  /\ session.left.ext < MaxDiskChanges

\* C21: when the saved acknowledgement of a write arrives, the baseline of the
\* key is the text that write sent, and the key is clean afterwards only if its
\* buffer equals that text
C21_SavedSetsBaselineToSent ==
  LET l == session.last
  IN  l.fn = "saved" =>
        /\ l.after.baseline = Loaded(l.text)
        /\ (~l.after.dirty => l.after.value = l.text)

\* C22: openTab posts read{key} exactly when the baseline of the key is still
\* the never-loaded sentinel; for a key whose baseline has been set it posts
\* nothing and changes neither buffer, nor baseline, nor dirty flag
C22_OpenReadsOnlyUnloaded ==
  LET l == session.last
  IN  l.fn = "openTab" =>
        IF l.before.baseline.loaded
        THEN /\ l.posted = <<>>
             /\ l.after.value = l.before.value
             /\ l.after.baseline = l.before.baseline
             /\ l.after.dirty = l.before.dirty
        ELSE l.posted = <<Msg("read", l.key, "", FALSE)>>

\* a tab with unsaved edits was opened again
C22_Witness ==
  /\ session.last.fn = "openTab"
  /\ session.last.before.baseline.loaded
  /\ session.last.before.dirty
  /\ session.left.opens < MaxOpens

\* C23: a key whose dirty flag is set has a baseline that is no longer the
\* never-loaded sentinel, and the content message that finds a never-loaded
\* baseline is applied
C23_DirtyOnlyAfterLoaded ==
  /\ \A k \in TabKeys : session.dirtyByKey[k] => session.baselineByKey[k].loaded
  /\ LET l == session.last
     IN  (l.fn = "content" /\ ~l.before.baseline.loaded) => l.after.baseline = Loaded(l.text)

\* the text a baseline stands for, a never-loaded baseline counting as empty
BaseTextOf(b) == IF b.loaded THEN b.text ELSE ""

\* C24: between the handlers of the session, the dirty flag of a key is set
\* if and only if its buffer differs from its baseline, a never-loaded
\* baseline counting as the empty text
C24_DirtyIffBufferDiffers ==
  \A k \in TabKeys :
    session.dirtyByKey[k] <=> (session.value[k] # BaseTextOf(session.baselineByKey[k]))

\* the file of a loaded, unedited key was removed and the deleted message has
\* been handled, after the user had edited and the key had been loaded
C24_Witness ==
  /\ session.last.fn = "deleted"
  /\ session.last.before.model
  /\ session.last.before.value # ""
  /\ ~session.last.before.dirty
  /\ session.left.edits < MaxEdits - 1

\* C25: while a write of a file is in progress or the grace period after it
\* has not elapsed, a change or create notification for that file starts no
\* read (no content message follows), also when writes to the file overlap;
\* a notification for a file with no such write is not suppressed
C25_SelfWritesSuppressed ==
  LET w == session.seen
  IN  w.kind \in {"change", "create"} => (w.window <=> ~w.started)

\* C26: a template message with text and missing = false leaves the active key "pug"
\* and puts the text (closed by a line end) into the pug buffer at the recorded drop
\* position, or at the cursor when none was recorded; nothing of another key changes;
\* after every template message no drop position is recorded.
C26_TemplateGoesToPugOnly ==
  LET t == session.tmpl
      pos == IF t.at.set THEN t.at.pos ELSE t.cursor
  IN  t.handled =>
        /\ t.atAfter = NoPos
        /\ (~t.missing /\ Trim(t.text) # "") =>
              /\ t.activeAfter = "pug"
              /\ t.after["pug"].value \in
                   {InsertAt(t.before["pug"].value, pos, t.text),
                    InsertAt(t.before["pug"].value, pos, t.text \o "\n")}
              /\ \A k \in TabKeys \ {"pug"} :
                   /\ t.after[k].value = t.before[k].value
                   /\ t.after[k].baseline = t.before[k].baseline
                   /\ t.after[k].dirty = t.before[k].dirty

\* C27: a template request of a drop that did not end a drag from the tree finds no
\* dragged references and is answered with template{text: "", missing: true}.
C27_DraggedUrisEndWithGesture ==
  LET a == session.asked
  IN  (a.answered /\ a.gesture # "tree") =>
        /\ a.uris = <<>>
        /\ a.text = ""
        /\ a.missing

-----------------------------------------------------------------------------
(* The functions of lib/wiz-utils.ts on their own: a mode and a text are     *)
(* given, and the functions are applied to them                              *)

TextChars == {"a", ".", " ", "-"}
\* how a text may begin ("..a..b.." is the text of the tests, with shorter names)
TextHeads == {"", "page.", "layout.", " page.", "page", "..a..b.."}

RECURSIVE Dots(_)
\* n dots
Dots(n) == IF n = 0 THEN "" ELSE "." \o Dots(n - 1)

RECURSIVE Words(_)
\* the texts of at most n characters
Words(n) ==
  IF n = 0 THEN {""}
  ELSE LET Shorter(W) == W \cup {w \o c : w \in W, c \in TextChars}
       IN  Shorter(Words(n - 1))

TextInputs == {h \o w : h \in TextHeads, w \in Words(MaxTextLen)}

NoDerived == [id |-> "", namespace |-> ""]

\* the base paths handed to buildTemplate, as lists of segments
PathSegs == {"portal", "app1"}
BaseSegs == UNION {[1..n -> PathSegs] : n \in 0..MaxPathSegs}
NoBuilt == [ok |-> TRUE, template |-> ""]

InitText ==
  /\ fs = PickFs({})
  /\ undoStack = <<>>
  /\ redoStack = <<>>
  /\ tasks = <<>>
  /\ session = NoSession
  /\ \E mode \in Range(ALL_WIZ_MODES), raw \in TextInputs :
       hist = [phase |-> "input", mode |-> mode, raw |-> raw, out |-> NoDerived,
               again |-> NoDerived, dash |-> "", segs |-> <<>>, base |-> "", built |-> NoBuilt]

\* deriveIdAndNamespace(mode, raw)
Derive ==
  /\ hist.phase = "input"
  /\ hist' = [hist EXCEPT !.phase = "derived",
                           !.out = deriveIdAndNamespace(hist.mode, hist.raw)]
  /\ UNCHANGED <<fs, undoStack, redoStack, tasks, session>>

\* deriveIdAndNamespace(mode, id) for the id returned before
DeriveAgain ==
  /\ hist.phase = "derived"
  /\ hist' = [hist EXCEPT !.phase = "again",
                           !.again = deriveIdAndNamespace(hist.mode, hist.out.id)]
  /\ UNCHANGED <<fs, undoStack, redoStack, tasks, session>>

\* namespaceToDash(raw)
ToDash ==
  /\ hist.phase = "input"
  /\ hist' = [hist EXCEPT !.phase = "dashed", !.dash = namespaceToDash(hist.raw)]
  /\ UNCHANGED <<fs, undoStack, redoStack, tasks, session>>

\* buildTemplate(mode, raw, base) for a base path of the given segments, which may end
\* with a separator
BuildTemplate ==
  /\ hist.phase = "input"
  /\ \E segs \in BaseSegs, end \in {"", "/"} :
       LET base == "/" \o Join(segs, "/") \o end
       IN  hist' = [hist EXCEPT !.phase = "built", !.segs = segs, !.base = base,
                                !.built = buildTemplate(hist.mode, hist.raw, base)]
  /\ UNCHANGED <<fs, undoStack, redoStack, tasks, session>>

NextText == Derive \/ DeriveAgain \/ ToDash \/ BuildTemplate

SpecText == InitText /\ [][NextText]_vars

-----------------------------------------------------------------------------
(* The drop helpers of media/wiz/app.js on their own: a payload is dropped   *)
(* and resolved to a line and a path                                         *)

\* a value a function returned, or the fact that it threw
Returned(v) == [threw |-> FALSE, value |-> v]
Thrown == [threw |-> TRUE, value |-> ""]

\* the character two hex digits stand for, for the escapes the payloads hold: a byte
\* from 80 up on its own is no UTF-8 text
DecodeByte(hex) ==
  CASE hex = "20" -> Returned(" ")
    [] hex = "24" -> Returned("$")
    [] OTHER -> Thrown

RECURSIVE decodeURIComponent(_)
\* decodeURIComponent(s): throws URIError at a "%" that no escape follows
decodeURIComponent(s) ==
  IF s = "" THEN Returned("")
  ELSE IF SubSeq(s, 1, 1) # "%"
       THEN LET Rest(r) == IF r.threw THEN r ELSE Returned(SubSeq(s, 1, 1) \o r.value)
            IN  Rest(decodeURIComponent(SubSeq(s, 2, Len(s))))
  ELSE IF Len(s) < 3 \/ DecodeByte(SubSeq(s, 2, 3)).threw THEN Thrown
  ELSE LET Rest(r) == IF r.threw THEN r
                      ELSE Returned(DecodeByte(SubSeq(s, 2, 3)).value \o r.value)
       IN  Rest(decodeURIComponent(SubSeq(s, 4, Len(s))))

RECURSIVE PercentDecode(_)
\* the URL parser's percent-decode: what is no escape stays as it is
PercentDecode(s) ==
  IF s = "" THEN ""
  ELSE IF SubSeq(s, 1, 1) = "%" /\ Len(s) >= 3 /\ ~DecodeByte(SubSeq(s, 2, 3)).threw
       THEN DecodeByte(SubSeq(s, 2, 3)).value \o PercentDecode(SubSeq(s, 4, Len(s)))
  ELSE SubSeq(s, 1, 1) \o PercentDecode(SubSeq(s, 2, Len(s)))

RECURSIVE EncodePath(_)
\* the URL parser's path percent-encode set, of which the payloads hold the space
EncodePath(s) ==
  IF s = "" THEN ""
  ELSE (IF SubSeq(s, 1, 1) = " " THEN "%20" ELSE SubSeq(s, 1, 1))
         \o EncodePath(SubSeq(s, 2, Len(s)))

RECURSIVE IndexOf(_, _, _)
\* the first place from i on where the character c is in s, 0 when there is none
IndexOf(s, c, i) ==
  IF i > Len(s) THEN 0 ELSE IF SubSeq(s, i, i) = c THEN i ELSE IndexOf(s, c, i + 1)

\* host and path of what follows "//": the host ends at the first "/"
Authority(rest) ==
  LET i == IndexOf(rest, "/", 1)
  IN  [host |-> IF i = 0 THEN rest ELSE SubSeq(rest, 1, i - 1),
       path |-> IF i = 0 THEN "" ELSE SubSeq(rest, i, Len(rest))]

\* new URL(s).pathname for a text that starts with "file://": the host is
\* percent-decoded and must hold no forbidden character, the path is never empty
FilePathname(s) ==
  LET a == Authority(SubSeq(s, 8, Len(s)))
      host == PercentDecode(a.host)
  IN  IF Occurs(host, " ") \/ Occurs(host, "%") THEN Thrown
      ELSE Returned(IF a.path = "" THEN "/" ELSE EncodePath(a.path))

\* new URL(s).pathname for a text with a scheme of its own, rest being what follows
\* the colon: a host is kept as it is and must hold no forbidden character
OtherPathname(rest) ==
  LET a == Authority(SubSeq(rest, 3, Len(rest)))
  IN  IF StartsWith(rest, "//")
      THEN IF Occurs(a.host, " ") THEN Thrown ELSE Returned(EncodePath(a.path))
      ELSE IF StartsWith(rest, "/") THEN Returned(EncodePath(rest))
      ELSE Returned(rest)

\* try { return decodeURIComponent(new URL(s).pathname).replace(/\$\d+$/, "") }
DecodedPath(u) ==
  LET Stripped(r) == IF r.threw THEN r ELSE Returned(stripVsCodeSuffix(r.value))
  IN  IF u.threw THEN u ELSE Stripped(decodeURIComponent(u.value))

\* null, or a path
NoPath == [null |-> TRUE, path |-> ""]
Path(p) == [null |-> FALSE, path |-> p]

\* what a function returns when try { body } catch { handler } ends it
Try(body, handler) == IF body.threw THEN handler ELSE body

\* the end of extractFsPathFromDroppedText, from "if (s.startsWith("/"))" on
PlainPath(s) ==
  IF StartsWith(s, "/") THEN Returned(Path(s))
  ELSE IF StartsWith(s, "Users/") THEN Returned(Path("/" \o s))
  ELSE Returned(NoPath)

\* the value of DecodedPath as a path
AsPath(r) == IF r.threw THEN r ELSE Returned(Path(r.value))

extractFsPathFromDroppedTextNoCatch(text) ==
  LET s == stripVsCodeSuffix(Trim(text))
  IN  IF text = "" THEN Returned(NoPath)
      ELSE IF StartsWith(s, "file://") THEN AsPath(DecodedPath(FilePathname(s)))
      ELSE IF StartsWith(s, "vscode-file:")
           THEN AsPath(DecodedPath(OtherPathname(SubSeq(s, 13, Len(s)))))
      ELSE IF StartsWith(s, "vscode-resource:")
           THEN AsPath(DecodedPath(OtherPathname(SubSeq(s, 17, Len(s)))))
      ELSE PlainPath(s)

extractFsPathFromDroppedText(text) ==
  LET s == stripVsCodeSuffix(Trim(text))
  IN  IF text = "" THEN Returned(NoPath)
      ELSE IF StartsWith(s, "file://")
           THEN Try(AsPath(DecodedPath(FilePathname(s))),
                    Returned(Path(stripVsCodeSuffix(SubSeq(s, 8, Len(s))))))
      ELSE IF StartsWith(s, "vscode-file:")
           THEN Try(AsPath(DecodedPath(OtherPathname(SubSeq(s, 13, Len(s))))), PlainPath(s))
      ELSE IF StartsWith(s, "vscode-resource:")
           THEN Try(AsPath(DecodedPath(OtherPathname(SubSeq(s, 17, Len(s))))), PlainPath(s))
      ELSE PlainPath(s)

\* the encodings readDropLines looks at, in its order
candidates == <<"resourceurls", "application/vnd.code.uri-list", "text/uri-list", "text/plain">>

RECURSIVE FirstFilled(_, _)
\* for (const t of candidates) { v = getData(t); if (v && String(v).trim()) return ... }
FirstFilled(data, i) ==
  IF i > Len(candidates) THEN [type |-> "", raw |-> ""]
  ELSE IF data[candidates[i]] # "" /\ Trim(data[candidates[i]]) # ""
       THEN [type |-> candidates[i], raw |-> data[candidates[i]]]
  ELSE FirstFilled(data, i + 1)

\* readDropLines(e), data being what e.dataTransfer.getData returns (type "" is null)
readDropLines(data) == FirstFilled(data, 1)

RECURSIVE SplitLines(_, _)
\* raw.split(/\r?\n/); cur is the line being read
SplitLines(s, cur) ==
  IF s = "" THEN <<cur>>
  ELSE IF SubSeq(s, 1, 1) = "\n"
       THEN <<IF EndsWith(cur, "\r") THEN SubSeq(cur, 1, Len(cur) - 1) ELSE cur>>
              \o SplitLines(SubSeq(s, 2, Len(s)), "")
  ELSE SplitLines(SubSeq(s, 2, Len(s)), cur \o SubSeq(s, 1, 1))

\* .map((x) => x.trim())
TrimAll(lines) == [i \in DOMAIN lines |-> Trim(lines[i])]

NoLine == [threw |-> FALSE, null |-> TRUE, raw |-> "", fsPath |-> NoPath, sourceType |-> ""]

RECURSIVE FirstLine(_)
\* for (const line of lines) { if (line.startsWith("#")) continue; ... }: the line the
\* loop body is run for, if any
FirstLine(lines) ==
  IF lines = <<>> THEN [found |-> FALSE, line |-> ""]
  ELSE IF StartsWith(Head(lines), "#") THEN FirstLine(Tail(lines))
  ELSE [found |-> TRUE, line |-> Head(lines)]

\* return { raw: line, fsPath, sourceType: type }, r being what resolving the line gave
Picked(line, type, r) ==
  [threw |-> r.threw, null |-> FALSE, raw |-> line,
   fsPath |-> IF r.threw THEN NoPath ELSE r.value, sourceType |-> type]

pickDroppedLineNoCatch(data) ==
  LET read == readDropLines(data)
      first == FirstLine(FilterNonEmpty(TrimAll(SplitLines(read.raw, ""))))
  IN  IF ~first.found THEN NoLine
      ELSE Picked(first.line, read.type, extractFsPathFromDroppedTextNoCatch(first.line))

pickDroppedLine(data) ==
  LET read == readDropLines(data)
      first == FirstLine(FilterNonEmpty(TrimAll(SplitLines(read.raw, ""))))
  IN  IF ~first.found THEN NoLine
      ELSE Picked(first.line, read.type, extractFsPathFromDroppedText(first.line))

\* how a line of a payload may begin, and the pieces it may go on with
LineHeads ==
  {"", "/", "Users/", "x", "#", "file:/", "file://", "file:///",
   "vscode-file://h/", "vscode-resource://h/"}
LineTokens == {"/", "a", "%20", "%24", "%", "$1", " "}

RECURSIVE TokenWords(_)
\* the texts of at most n pieces
TokenWords(n) ==
  IF n = 0 THEN {""}
  ELSE LET Shorter(W) == W \cup {w \o t : w \in W, t \in LineTokens}
       IN  Shorter(TokenWords(n - 1))

\* the lines a payload may hold (the last is the line of the specification's example)
DropLines ==
  {h \o w : h \in LineHeads, w \in TokenWords(MaxLineTokens)}
    \cup {"file:///Users/x/y%20z$1"}

\* the payloads built around a line
PayloadsOf(line) ==
  {line, " " \o line \o "\r\n/b", "\n#c\r\n" \o line, "#c\n \n" \o line \o "\n"}

\* what getData returns: the encodings before the i-th hold nothing or blanks, the
\* i-th holds the payload, the ones after it hold nothing or a path
DropDataOf(i, payload, blank, later) ==
  [t \in Range(candidates) |->
     IF t = candidates[i] THEN payload
     ELSE IF \E j \in 1..(i - 1) : t = candidates[j] THEN blank
     ELSE later]

DropData ==
  {DropDataOf(i, p, blank, later) :
     i \in DOMAIN candidates, p \in UNION {PayloadsOf(l) : l \in DropLines},
     blank \in {"", " \n"}, later \in {"", "/z"}}

InitDrop ==
  /\ fs = PickFs({})
  /\ undoStack = <<>>
  /\ redoStack = <<>>
  /\ tasks = <<>>
  /\ session = NoSession
  /\ \E data \in DropData : hist = [phase |-> "dragging", data |-> data, picked |-> NoLine]

\* pickDroppedLine(e) for the drop event e
PickDroppedLine ==
  /\ hist.phase = "dragging"
  /\ hist' = [hist EXCEPT !.phase = "dropped", !.picked = pickDroppedLine(hist.data)]
  /\ UNCHANGED <<fs, undoStack, redoStack, tasks, session>>

NextDrop == PickDroppedLine

SpecDrop == InitDrop /\ [][NextDrop]_vars

\* C29: for a mode other than portal the id is the trimmed input, with "<mode>." put
\* in front exactly when the trimmed input does not start with it, and the namespace
\* is the id without that prefix and without leading and trailing dots; deriving again
\* from the id gives the same id and namespace. For portal both are the trimmed input.
C29_DeriveIdAndNamespace ==
  LET id == Trim(hist.raw)
      prefix == hist.mode \o "."
      rest == SubSeq(hist.out.id, Len(prefix) + 1, Len(hist.out.id))
  IN  /\ (hist.phase \in {"derived", "again"} /\ hist.mode = "portal") =>
            hist.out = [id |-> id, namespace |-> id]
      /\ (hist.phase \in {"derived", "again"} /\ hist.mode # "portal") =>
            /\ hist.out.id = (IF StartsWith(id, prefix) THEN id ELSE prefix \o id)
            /\ StartsWith(hist.out.id, prefix)
            /\ \E i, j \in 0..Len(rest) :
                 /\ rest = Dots(i) \o hist.out.namespace \o Dots(j)
                 /\ ~StartsWith(hist.out.namespace, ".")
                 /\ ~EndsWith(hist.out.namespace, ".")
      /\ (hist.phase = "again" /\ hist.mode # "portal") => hist.again = hist.out

\* an id that had the prefix already, with dots around the namespace, was derived twice
C29_Witness ==
  /\ hist.phase = "again"
  /\ hist.mode = "page"
  /\ hist.raw = " page..a."
  /\ hist.out = [id |-> "page..a.", namespace |-> "a"]

\* the result has a dash at its start, a dash at its end, or two dashes in a row
StrayDash(s) == StartsWith(s, "-") \/ EndsWith(s, "-") \/ Occurs(s, "--")

\* C30: for an input in which no dash occurs, namespaceToDash returns a text with no
\* leading dash, no trailing dash and no two dashes in a row, in which no dot is left;
\* "..a..b.." gives "a-b", and an empty or all-dots input gives "".
C30_DotsBecomeSingleDashes ==
  (hist.phase = "dashed" /\ ~Occurs(hist.raw, "-")) =>
    /\ ~StrayDash(hist.dash)
    /\ ~Occurs(hist.dash, ".")
    /\ (hist.raw = "..a..b.." => hist.dash = "a-b")
    /\ (hist.raw \in {Dots(n) : n \in 0..MaxTextLen} => hist.dash = "")

\* the text of the tests was turned into dashes
C30_Witness ==
  /\ hist.phase = "dashed"
  /\ hist.raw = "..a..b.."
  /\ hist.dash = "a-b"

\* C30 as stated, for every input: no leading, trailing or double dash in the result
C30_NoStrayDashForAnyInput ==
  hist.phase = "dashed" => ~StrayDash(hist.dash)

\* the encoding the claim names: the first in the order whose payload is not blank
FirstFilledType(data) ==
  IF \A i \in DOMAIN candidates : Trim(data[candidates[i]]) = "" THEN ""
  ELSE candidates[CHOOSE i \in DOMAIN candidates :
                    /\ Trim(data[candidates[i]]) # ""
                    /\ \A j \in 1..(i - 1) : Trim(data[candidates[j]]) = ""]

\* a line that is skipped: blank, or a comment
Skipped(line) == Trim(line) = "" \/ StartsWith(Trim(line), "#")

\* picked is the first line of the payload of the encoding that is not skipped, trimmed,
\* or nothing when every line is skipped
PickedFirstLine(data, picked) ==
  LET type == FirstFilledType(data)
      lines == IF type = "" THEN <<>> ELSE SplitLines(data[type], "")
  IN  IF \A j \in DOMAIN lines : Skipped(lines[j]) THEN picked.null
      ELSE /\ ~picked.null
           /\ picked.sourceType = type
           /\ \E j \in DOMAIN lines :
                /\ ~Skipped(lines[j])
                /\ \A k \in 1..(j - 1) : Skipped(lines[k])
                /\ picked.raw = Trim(lines[j])

\* the line is a URL of one of the three schemes
IsDroppedUrl(s) ==
  StartsWith(s, "file://") \/ StartsWith(s, "vscode-file:") \/ StartsWith(s, "vscode-resource:")

\* the decoded path of the URL s, when s can be parsed and its path decoded
UrlPathOf(s) ==
  LET Decoded(u) == IF u.threw THEN u ELSE decodeURIComponent(u.value)
  IN  IF StartsWith(s, "file://") THEN Decoded(FilePathname(s))
      ELSE IF StartsWith(s, "vscode-file:") THEN Decoded(OtherPathname(SubSeq(s, 13, Len(s))))
      ELSE Decoded(OtherPathname(SubSeq(s, 17, Len(s))))

\* the path of a line that is no URL: a line starting with "/" as it is, a line
\* starting with "Users/" with "/" before it, no path for any other
PlainLineResolved(s, fsPath) ==
  ~IsDroppedUrl(s) =>
    fsPath = (IF StartsWith(s, "/") THEN Path(s)
              ELSE IF StartsWith(s, "Users/") THEN Path("/" \o s)
              ELSE NoPath)

RejectedCommand(t) ==
  CASE t.cmd \in {"newFile", "newFolder"} -> Exists(t.fsBefore, t.uri)
    [] t.cmd = "rename" -> Basename(t.to) # Basename(t.uri) /\ Exists(t.fsBefore, t.to)
    [] t.cmd = "newWizPage" ->
         \/ isWizFolder(t.fsBefore, t.base)
         \/ t.mode = "portal" /\ ~getPortalFromBaseFsPath(t.base).found
         \/ Exists(t.fsBefore, JoinPath(t.base, deriveIdAndNamespace(t.mode, t.contents).id))
    [] OTHER -> FALSE

\* C32: a wiz.newFile, wiz.newFolder, wiz.rename or wiz.newWizPage that is rejected
\* makes no call that changes the filesystem and leaves the filesystem and both stacks
\* as they were.
C32_RejectedCommandChangesNothing ==
  RejectedCommand(LastDone) =>
    /\ LastDone.succ = <<>>
    /\ LastDone.attempted = <<>>
    /\ LastDone.pushed = <<>>
    /\ fs = LastDone.fsBefore
    /\ undoStack = LastDone.undoBefore
    /\ redoStack = LastDone.redoBefore

\* a second page with the id of the first was asked for
C32_Witness ==
  /\ LastDone.cmd = "newWizPage"
  /\ LastDone.mode = "page"
  /\ Exists(LastDone.fsBefore, "/w/page.n")
  /\ LastDone.base = "/w"
  /\ undoStack # <<>>

\* the directory a relative path of a snapshot lies in ("" is the root)
ParentRel(rel) ==
  LET i == LastIndexOf(rel, "/", Len(rel))
  IN  IF i = 0 THEN "" ELSE SubSeq(rel, 1, i - 1)

\* the calls of a restore whose target lies in a directory that is not there when the
\* call is made, the restore starting in filesystem f
OrphanCalls(f, root, calls) ==
  {k \in DOMAIN calls :
     /\ calls[k].uri # root
     /\ ~IsDir(ApplyCalls(f, SubSeq(calls, 1, k - 1)).fs, Dirname(calls[k].uri))}

\* C33: in a snapshot the root "" is the first directory, every other directory comes
\* after its parent directory, and the parent directory of every file is listed; a
\* restore makes no call for an entry whose parent directory does not exist yet.
C33_SnapshotParentsFirst ==
  LET dirs == hist.snap.dirs
      files == hist.snap.files
  IN  /\ (hist.phase # "tree" /\ hist.ok) =>
            /\ dirs # <<>>
            /\ dirs[1] = ""
            /\ \A i \in 2..Len(dirs) : \E j \in 1..(i - 1) : dirs[j] = ParentRel(dirs[i])
            /\ \A k \in DOMAIN files : \E j \in DOMAIN dirs : dirs[j] = ParentRel(files[k].rel)
      /\ hist.phase = "restored" =>
            OrphanCalls(hist.cleared, SnapRoot, restoreDir(SnapRoot, hist.snap, 0)) = {}

\* a tree with a directory in a directory, next to a directory with a longer name, was
\* restored after the root had been removed
C33_Witness ==
  /\ hist.phase = "restored"
  /\ SnapRoot \notin DOMAIN hist.cleared
  /\ hist.snap.dirs = <<"", "d", "d/e", "longer">>
  /\ Len(hist.snap.files) = 3

\* the summary notices a command has shown
SummaryNotices(t) == {n \in DOMAIN t.notices : t.notices[n].kind = "summary"}

\* C34: after a drop that moved at least one item, a summary notice, when shown, gives
\* the number of renamed items and at most five examples of each kind; when Wiz-folder
\* sources were skipped, a summary notice is shown and gives their number as the
\* number of skipped items.
C34_SummaryCountsSkipped ==
  (LastDone.cmd = "drop" /\ LastDone.movedPairs # <<>>) =>
    /\ \A n \in SummaryNotices(LastDone) :
         /\ LastDone.notices[n].arg.renamed = Len(LastDone.renamed)
         /\ Len(LastDone.notices[n].arg.detail) <= 10
    /\ WizSources(LastDone) # {} =>
         \E n \in SummaryNotices(LastDone) :
           LastDone.notices[n].arg.skipped = Cardinality(WizSources(LastDone))

\* the template message handled last put a text into the pug buffer
PugInsertion ==
  /\ session.tmpl.handled
  /\ session.tmpl.after.pug.value # session.tmpl.before.pug.value

\* the text that insertion put into the pug buffer: what the buffer holds after it
\* between the place of the insertion and the rest of the text it held before
InsertedText ==
  LET b == session.tmpl.before.pug.value
      a == session.tmpl.after.pug.value
      pos == IF session.tmpl.at.set THEN session.tmpl.at.pos ELSE session.tmpl.cursor
      p == Min(pos, Len(b))
  IN  SubSeq(a, p + 1, p + Len(a) - Len(b))

\* C35 (as stated): the text a template insertion puts into the pug buffer ends with
\* exactly one newline: one is appended when the template has none at its end, and the
\* inserted text never ends with two newlines.
C35_ExactlyOneNewline ==
  PugInsertion =>
    /\ EndsWith(InsertedText, "\n")
    /\ ~EndsWith(InsertedText, "\n\n")
    /\ ~EndsWith(session.tmpl.text, "\n") => InsertedText = session.tmpl.text \o "\n"

\* C35 (amended): the text a template insertion puts into the pug buffer ends with a
\* newline: one is appended when the template has none at its end, and a template that
\* ends with a newline is inserted as it is, with every newline at its end.
C35_EndsWithNewline ==
  PugInsertion =>
    /\ EndsWith(InsertedText, "\n")
    /\ ~EndsWith(session.tmpl.text, "\n") => InsertedText = session.tmpl.text \o "\n"
    /\ EndsWith(session.tmpl.text, "\n") => InsertedText = session.tmpl.text

C35_Witness ==
  /\ PugInsertion
  /\ session.tmpl.text = "t"
  /\ InsertedText = "t\n"

\* C36: handleDrop comes to its end for every dragged list and every workspace: the
\* loop that picks a name again while the lower-cased path picked is reserved is left,
\* also when two sources of the gesture have names that differ in letter case only.
C36_DropTerminates ==
  LastDone.cmd = "drop" => ~LastDone.hung

\* C37: a content or deleted message that changes the buffer of a key overwrites a
\* text that was loaded from the file of the key or acknowledged as written to it (or
\* the empty buffer of a key never loaded): no edit is lost without a word.
C37_NoEditOverwritten ==
  LET l == session.last
  IN  (l.fn \in {"content", "deleted"} /\ l.after.value # l.before.value) =>
        l.before.value = l.synced

\* the entries of a Wiz page created in full
WizPageEntries(wizDir) ==
  {wizDir, JoinPath(wizDir, "app.json")}
    \cup {JoinPath(wizDir, DEFAULT_WIZ_FILES[k].name) : k \in DOMAIN DEFAULT_WIZ_FILES}

\* C38: when wiz.newWizPage has returned, either it created nothing and pushed no
\* record, or the folder with its default files and app.json is there and one batch
\* was pushed: the mkdir of the folder first, then one createFile per file written.
C38_WizPageAllOrNothing ==
  LastDone.cmd = "newWizPage" =>
    \/ /\ LastDone.succ = <<>>
       /\ LastDone.pushed = <<>>
    \/ /\ {LastDone.succ[k].uri : k \in DOMAIN LastDone.succ} = WizPageEntries(LastDone.uri)
       /\ Len(LastDone.pushed) = 1
       /\ LastDone.pushed[1].type = "batch"
       /\ Len(LastDone.pushed[1].ops) = Len(DEFAULT_WIZ_FILES) + 2
       /\ LastDone.pushed[1].ops[1] = [type |-> "mkdir", uri |-> LastDone.uri]
       /\ \A k \in 2..Len(LastDone.pushed[1].ops) :
            /\ LastDone.pushed[1].ops[k].type = "createFile"
            /\ LastDone.pushed[1].ops[k].uri = LastDone.succ[k].uri

\* template requests not answered yet: those on their way to the panel and those the
\* panel is reading for
Pending(d) ==
  Cardinality({i \in DOMAIN d.toExtension :
                 d.toExtension[i].type \in {"requestTemplate", "requestTemplateFromLastDrag"}})
    + Cardinality({i \in DOMAIN d.jobs : d.jobs[i].kind \in {"template", "resolve"}})

\* template messages on their way to the surface
Templates(d) == Cardinality({i \in DOMAIN d.toWebview : d.toWebview[i].type = "template"})

\* the folder a reference stands for: the folder of .wizpage, the folder itself, or the
\* folder of the file
FolderOfRef(f, ref) ==
  IF Basename(ref) = ".wizpage" \/ ~IsDir(f, ref) THEN Dirname(ref) ELSE ref

\* the app.json texts with a template field
InfoWithTemplate ==
  {"{\"template\":\"t\"}", "{\"template\":\"t\\n\"}", "{\"template\":\"t\\n\\n\"}",
   "{\"template\":\"\"}"}

\* no template can be had from the folder
NoTemplateIn(f, folder) ==
  \/ ~isWizFolder(f, folder)
  \/ ~IsFile(f, JoinPath(folder, "app.json"))
  \/ f[JoinPath(folder, "app.json")].contents \notin InfoWithTemplate

\* the entry the reference of a requestTemplate message names, when it names one
RefOf(path, uri) ==
  CASE path = "/w/c" \/ path = " /w/c$0 " \/ uri = "file:///w/c" -> Folder("/w/c")
    [] uri = "/w/n.txt$1" -> Folder("/w/n.txt")
    [] uri = "http://h/w/c/.wizpage" -> Folder("/w/c/.wizpage")
    [] OTHER -> NoFolder

AnswerIsMissing ==
  /\ LET a == session.asked
     IN  (a.answered /\ (a.uris = <<>> \/ NoTemplateIn(fs, FolderOfRef(fs, a.uris[1])))) =>
           (a.text = "" /\ a.missing)
  /\ LET r == session.resolved
         ref == RefOf(r.path, r.uri)
     IN  (r.answered /\ (~ref.found \/ NoTemplateIn(fs, FolderOfRef(fs, ref.uri)))) =>
           (r.text = "" /\ r.missing)

AnsweredOnce ==
  LET answered == Pending(session) - Pending(session')
      sent == Templates(session') - Templates(session)
  IN  /\ answered > 0 => sent = answered
      /\ sent > 0 => answered = sent

\* C39: every requestTemplate and every requestTemplateFromLastDrag message is answered
\* by one template message: the panel posts a template message when, and only when, it
\* has handled a request, and the answer is template{text: "", missing: true} when the
\* reference names nothing, the folder is no Wiz folder, or app.json is absent, cannot
\* be parsed or has no template field.
C39_EveryRequestAnsweredOnce ==
  [][AnsweredOnce /\ AnswerIsMissing']_vars

\* a requestTemplate message that names no file was answered with missing, and the
\* answer is on its way to the surface
C39_Witness ==
  /\ session.left.asks = 0
  /\ Pending(session) = 0
  /\ Templates(session) = MaxAsks
  /\ session.resolved.answered
  /\ session.resolved.missing
  /\ session.resolved.uri = "untitled:x"

\* a "saved" message for key is on its way to the surface or waits for the editor
SavedPending(d, key) ==
  \/ \E i \in DOMAIN d.toWebview : d.toWebview[i].type = "saved" /\ d.toWebview[i].key = key
  \/ \E i \in DOMAIN d.deferred : d.deferred[i].fn = "saved" /\ d.deferred[i].msg.key = key

\* C40: a write that fails posts no message (no "saved"), and its finally block sets the
\* timer that releases the entry of the file: every entry of `writing` belongs to a
\* write in progress or has a timer that will remove it.  With no "saved" message for
\* the key, a key that is dirty stays dirty whatever the panel does.
C40_FailedWriteNotAcknowledged ==
  /\ session.thrown.happened =>
       /\ session.thrown.posted = <<>>
       /\ session.thrown.timers = <<WIZ_FILES[session.thrown.key]>>
  /\ \A name \in session.writing : InWindow(session, name)

\* the only write of a session failed: its timer has fired, the entry is released, and
\* the key is still dirty
C40_Witness ==
  /\ session.thrown.happened
  /\ session.left.saves = 0
  /\ session.timers = <<>>
  /\ session.writing = {}
  /\ session.dirtyByKey[session.thrown.key]
  /\ ~SavedPending(session, session.thrown.key)

====
